---- MODULE Spec2Model ----
(***************************************************************************)
(* A model of the MCP client of mcp_client/client.py: the Client session   *)
(* (request-id counter, initialized flag, tool cache, the two streams),    *)
(* its operations split at their await points, and the string decoder      *)
(* extract_jsonrpc that list_tools and call_tool apply to what they read.   *)
(*                                                                         *)
(* Strings are sequences of tokens.  A token is an atom of the wire text:  *)
(* a quote, a bracket, a keyword such as "root=" or "None", or a word.     *)
(* Whitespace between tokens is not represented.                           *)
(***************************************************************************)
EXTENDS Integers, Sequences, FiniteSets, TLC

\* ------------------------------------------------------------------------
\* Python values
\* ------------------------------------------------------------------------

SQ == "'"
DQ == "\""
BS == "\\"

\* `x = e` followed by code that uses x: F(x) for x the value of e. The value is
\* worked out once, however often F uses it.
With(e, F(_)) == CHOOSE y \in {F(x) : x \in {e}} : TRUE

PyNone == [t |-> "none"]
PyBool(b) == [t |-> "bool", b |-> b]
PyNum(n) == [t |-> "num", n |-> n]
PyStr(s) == [t |-> "str", s |-> s]
PyList(items) == [t |-> "list", items |-> items]
PyDict(kv) == [t |-> "dict", kv |-> kv]

\* tokens that stand for a number literal when they are met outside a string
NumTokens == {"0", "1", "2", "3", "4", "5", "6", "7", "8", "9", "42", "2.0"}

\* bool(v): the truth value Python gives a value in `if v:`
Truthy(v) ==
    CASE v.t = "none" -> FALSE
      [] v.t = "bool" -> v.b
      [] v.t = "num"  -> v.n # "0"
      [] v.t = "str"  -> Len(v.s) > 0
      [] v.t = "list" -> Len(v.items) > 0
      [] v.t = "dict" -> Len(v.kv) > 0
      [] OTHER -> TRUE

\* key in d, for a dict d
HasKey(d, k) == d.t = "dict" /\ \E i \in 1..Len(d.kv) : d.kv[i][1] = k

\* d.get(k) / d[k], for a dict d that has the key
GetKey(d, k) == d.kv[CHOOSE i \in 1..Len(d.kv) : d.kv[i][1] = k][2]

\* d[k] = v: an existing key keeps its place and takes the new value
PutKey(kv, k, v) ==
    IF \E i \in 1..Len(kv) : kv[i][1] = k
    THEN [i \in 1..Len(kv) |-> IF kv[i][1] = k THEN <<k, v>> ELSE kv[i]]
    ELSE Append(kv, <<k, v>>)

\* ------------------------------------------------------------------------
\* repr(): how Python prints a value, which is what str() of a reply shows
\* ------------------------------------------------------------------------

RECURSIVE Escape(_, _)
Escape(s, q) ==
    IF s = <<>> THEN <<>>
    ELSE (IF Head(s) = q \/ Head(s) = BS THEN <<BS, Head(s)>> ELSE <<Head(s)>>)
         \o Escape(Tail(s), q)

\* repr of a str: single quotes, unless the text holds a single quote and no
\* double quote; the delimiter and the backslash are escaped
ReprStr(s) ==
    IF (\E i \in 1..Len(s) : s[i] = SQ) /\ ~(\E i \in 1..Len(s) : s[i] = DQ)
    THEN <<DQ>> \o Escape(s, DQ) \o <<DQ>>
    ELSE <<SQ>> \o Escape(s, SQ) \o <<SQ>>

RECURSIVE Repr(_)
RECURSIVE ReprItems(_)
RECURSIVE ReprPairs(_)
Repr(v) ==
    CASE v.t = "none" -> <<"None">>
      [] v.t = "bool" -> IF v.b THEN <<"True">> ELSE <<"False">>
      [] v.t = "num"  -> <<v.n>>
      [] v.t = "str"  -> ReprStr(v.s)
      [] v.t = "list" -> <<"[">> \o ReprItems(v.items) \o <<"]">>
      [] v.t = "dict" -> <<"{">> \o ReprPairs(v.kv) \o <<"}">>

ReprItems(items) ==
    IF items = <<>> THEN <<>>
    ELSE Repr(Head(items))
         \o (IF Len(items) > 1 THEN <<",">> ELSE <<>>)
         \o ReprItems(Tail(items))

ReprPairs(kv) ==
    IF kv = <<>> THEN <<>>
    ELSE Repr(Head(kv)[1]) \o <<":">> \o Repr(Head(kv)[2])
         \o (IF Len(kv) > 1 THEN <<",">> ELSE <<>>)
         \o ReprPairs(Tail(kv))

\* ------------------------------------------------------------------------
\* json.loads and ast.literal_eval, as one parser with two modes
\*   "json": strings in double quotes only, null / true / false, string keys
\*   "py"  : strings in either quote, None / True / False, any scalar key,
\*           a trailing comma allowed
\* ------------------------------------------------------------------------

\* the nesting depth at which the parsers give up: json.loads raises RecursionError
\* when its scanner has descended as deep as the interpreter's recursion limit
\* allows (about 1000 levels), and ast.literal_eval fails likewise; the limit is
\* scaled down here, above the depth of every well-formed reply of the sessions
RecursionLimit == 4

ParseFail == [ok |-> FALSE, v |-> PyNone, i |-> 0, deep |-> FALSE]
ParseOk(v, i) == [ok |-> TRUE, v |-> v, i |-> i, deep |-> FALSE]
\* the parser has met a list or a dictionary nested deeper than the limit
ParseDeep == [ok |-> FALSE, v |-> PyNone, i |-> 0, deep |-> TRUE]

RECURSIVE ParseString(_, _, _, _, _)
ParseString(s, i, q, m, acc) ==
    IF i > Len(s) THEN ParseFail
    ELSE IF s[i] = q THEN ParseOk(PyStr(acc), i + 1)
    ELSE IF s[i] = BS
    THEN IF i + 1 > Len(s) THEN ParseFail
         ELSE IF s[i + 1] \in (IF m = "json" THEN {DQ, BS} ELSE {SQ, DQ, BS})
         THEN ParseString(s, i + 2, q, m, Append(acc, s[i + 1]))
         ELSE IF m = "json" THEN ParseFail
         ELSE ParseString(s, i + 2, q, m, acc \o <<BS, s[i + 1]>>)
    ELSE ParseString(s, i + 1, q, m, Append(acc, s[i]))

\* d is the number of lists and dictionaries that are open at position i
RECURSIVE ParseValue(_, _, _, _)
RECURSIVE ParseListItems(_, _, _, _, _)
RECURSIVE ParseDictItems(_, _, _, _, _)
ParseValue(s, i, m, d) ==
    IF i > Len(s) THEN ParseFail
    ELSE CASE s[i] \in {"{", "["} /\ d >= RecursionLimit -> ParseDeep
           [] s[i] = "{" -> ParseDictItems(s, i + 1, m, <<>>, d + 1)
           [] s[i] = "[" -> ParseListItems(s, i + 1, m, <<>>, d + 1)
           [] s[i] = DQ -> ParseString(s, i + 1, DQ, m, <<>>)
           [] s[i] = SQ /\ m = "py" -> ParseString(s, i + 1, SQ, m, <<>>)
           [] s[i] = (IF m = "json" THEN "null" ELSE "None") -> ParseOk(PyNone, i + 1)
           [] s[i] = (IF m = "json" THEN "true" ELSE "True") -> ParseOk(PyBool(TRUE), i + 1)
           [] s[i] = (IF m = "json" THEN "false" ELSE "False") -> ParseOk(PyBool(FALSE), i + 1)
           [] s[i] \in NumTokens -> ParseOk(PyNum(s[i]), i + 1)
           [] OTHER -> ParseFail

ParseListItems(s, i, m, acc, d) ==
    IF i > Len(s) THEN ParseFail
    ELSE IF s[i] = "]"
    THEN IF acc = <<>> \/ m = "py" THEN ParseOk(PyList(acc), i + 1) ELSE ParseFail
    ELSE With(ParseValue(s, i, m, d), LAMBDA r :
         IF ~r.ok THEN r
         ELSE IF r.i > Len(s) THEN ParseFail
         ELSE With(Append(acc, r.v), LAMBDA items :
              IF s[r.i] = "," THEN ParseListItems(s, r.i + 1, m, items, d)
              ELSE IF s[r.i] = "]" THEN ParseOk(PyList(items), r.i + 1)
              ELSE ParseFail))

ParseDictItems(s, i, m, kv, d) ==
    IF i > Len(s) THEN ParseFail
    ELSE IF s[i] = "}"
    THEN IF kv = <<>> \/ m = "py" THEN ParseOk(PyDict(kv), i + 1) ELSE ParseFail
    ELSE With(ParseValue(s, i, m, d), LAMBDA k :
         IF ~k.ok THEN k
         ELSE IF k.i > Len(s) THEN ParseFail
         ELSE IF (m = "json" /\ k.v.t # "str") \/ k.v.t \in {"list", "dict"} THEN ParseFail
         ELSE IF s[k.i] # ":" THEN ParseFail
         ELSE With(ParseValue(s, k.i + 1, m, d), LAMBDA r :
              IF ~r.ok THEN r
              ELSE IF r.i > Len(s) THEN ParseFail
              ELSE With(PutKey(kv, k.v, r.v), LAMBDA entries :
                   IF s[r.i] = "," THEN ParseDictItems(s, r.i + 1, m, entries, d)
                   ELSE IF s[r.i] = "}" THEN ParseOk(PyDict(entries), r.i + 1)
                   ELSE ParseFail)))

\* the whole text must be one value
Parse(s, m) ==
    With(s, LAMBDA text :
        With(ParseValue(text, 1, m, 0), LAMBDA r :
            IF r.ok /\ r.i # Len(text) + 1 THEN ParseFail ELSE r))

\* ------------------------------------------------------------------------
\* extract_jsonrpc
\* ------------------------------------------------------------------------

SetMin(S) == With(S, LAMBDA T : CHOOSE x \in T : \A y \in T : x <= y)

\* re.search(r'result=(\{.*?\})', s): the leftmost "result={", up to the first "}"
ResultMatch(s) ==
    LET ends(i) == {j \in (i + 2)..Len(s) : s[j] = "}"}
        starts == {i \in 1..Len(s) : i + 2 <= Len(s) /\ s[i] = "result=" /\ s[i + 1] = "{"
                                     /\ ends(i) # {}}
    IN IF starts = {} THEN [found |-> FALSE, group |-> <<>>]
       ELSE LET i == SetMin(starts) IN
            [found |-> TRUE, group |-> SubSeq(s, i + 1, SetMin(ends(i)))]

\* re.search(r'result=(\{.*?\})(?:,\s*error=|\)$)', s): the leftmost "result={", up
\* to the first "}" that is followed by ", error=" or by the ")" that ends the text
FullResultMatch(s) ==
    LET tail(j) == \/ j + 2 <= Len(s) /\ s[j + 1] = "," /\ s[j + 2] = "error="
                   \/ j + 1 = Len(s) /\ s[j + 1] = ")"
        ends(i) == {j \in (i + 2)..Len(s) : s[j] = "}" /\ tail(j)}
        starts == {i \in 1..Len(s) : i + 2 <= Len(s) /\ s[i] = "result=" /\ s[i + 1] = "{"
                                     /\ ends(i) # {}}
    IN IF starts = {} THEN [found |-> FALSE, group |-> <<>>]
       ELSE LET i == SetMin(starts) IN
            [found |-> TRUE, group |-> SubSeq(s, i + 1, SetMin(ends(i)))]

\* .replace("'", '"').replace("None", "null").replace("True", "true")
\* .replace("False", "false"), token by token
NormalizeToken(tok) ==
    CASE tok = SQ -> DQ
      [] tok = "None" -> "null"
      [] tok = "True" -> "true"
      [] tok = "False" -> "false"
      [] OTHER -> tok

JsonCompatible(s) == [i \in 1..Len(s) |-> NormalizeToken(s[i])]

\* `if field_name and field_name in result: return result.get(field_name)`,
\* else the whole result; field <<>> stands for field_name=None
SelectField(result, field) ==
    IF field # <<>> /\ HasKey(result, PyStr(field))
    THEN GetKey(result, PyStr(field))
    ELSE result

StartsWithRoot(v) == v.t = "str" /\ Len(v.s) > 0 /\ v.s[1] = "root="

\* extract_jsonrpc does not return: RecursionError leaves it
RecursionRaised == [t |-> "raised", name |-> "RecursionError"]

\* extract_jsonrpc (client.py 41-110): the value it returns, or RecursionRaised
\* when json.loads raises RecursionError, which `except json.JSONDecodeError`
\* (client.py 92) does not catch; every failure of ast.literal_eval is caught
\* (client.py 108-110)
extract_jsonrpc(input, field) ==
    IF ~StartsWithRoot(input) THEN PyNone
    ELSE With(ResultMatch(input.s), LAMBDA match :
         IF ~match.found THEN PyNone
         ELSE With(FullResultMatch(input.s), LAMBDA full :
              With(IF full.found THEN full.group ELSE match.group, LAMBDA result_str :
              With(Parse(JsonCompatible(result_str), "json"), LAMBDA js :
                   IF js.ok THEN SelectField(js.v, field)
                   ELSE IF js.deep THEN RecursionRaised
                   ELSE With(Parse(result_str, "py"), LAMBDA py :
                        IF py.ok THEN SelectField(py.v, field) ELSE PyNone)))))

\* re.search(r"'text':\s*'([^']+)'", s): the leftmost 'text': followed by a
\* non-empty quoted run that holds no single quote
TextMatch(s) ==
    LET close(i) == {j \in (i + 6)..Len(s) : s[j] = SQ}
        starts == {i \in 1..Len(s) :
                     /\ i + 6 <= Len(s)
                     /\ SubSeq(s, i, i + 4) = <<SQ, "text", SQ, ":", SQ>>
                     /\ s[i + 5] # SQ
                     /\ close(i) # {}}
    IN IF starts = {} THEN [found |-> FALSE, group |-> <<>>]
       ELSE LET i == SetMin(starts) IN
            [found |-> TRUE, group |-> SubSeq(s, i + 5, SetMin(close(i)) - 1)]

\* ------------------------------------------------------------------------
\* What the read stream delivers, and what the write stream is given
\* ------------------------------------------------------------------------

\* a value of the inbound stream:
\*   "msg"  a JSONRPCMessage object (root = JSONRPCResponse or JSONRPCError)
\*   "str"  a string
\*   "exc"  an exception object delivered in place of data
\* and "raise": receive() itself raises
MsgResponse(id, result) == [t |-> "msg", root |-> "JSONRPCResponse", id |-> id, result |-> result]
MsgError(id) == [t |-> "msg", root |-> "JSONRPCError", id |-> id]
ExcObject(name) == [t |-> "exc", name |-> name]
RecvRaises == [t |-> "raise"]

\* the objects of the client's own models (client.py 114-189): TextContent,
\* ToolCallResult and JsonRpcResponse; message is None or a str. dump tells how
\* str() shows the response: "model" as the pydantic model prints itself, "root" as
\* a root=JSONRPCResponse(...) dump of the same content
TextContent(type, text) == [t |-> "tc", type |-> type, text |-> text]
ToolCallResult(content, isError, message) ==
    [t |-> "tcr", content |-> content, isError |-> isError, message |-> message]
JsonRpcResponse(id, result, dump) == [t |-> "resp", id |-> id, result |-> result, dump |-> dump]

KText == PyStr(<<"text">>)
KType == PyStr(<<"type">>)
KContent == PyStr(<<"content">>)
KResult == PyStr(<<"result">>)
KIsError == PyStr(<<"isError">>)
KMessage == PyStr(<<"message">>)

\* a content item as a dictionary
ItemDict(it) ==
    IF it.t = "tc" THEN PyDict(<< <<KType, PyStr(it.type)>>, <<KText, PyStr(it.text)>> >>) ELSE it

\* a result as a dictionary: content, isError, and message when there is one
ResultDict(r) ==
    IF r.t # "tcr" THEN r
    ELSE PyDict(<< <<KContent, PyList([i \in 1..Len(r.content) |-> ItemDict(r.content[i])])>>,
                   <<KIsError, PyBool(r.isError)>> >>
                \o (IF r.message = PyNone THEN <<>> ELSE << <<KMessage, r.message>> >>))

\* repr of a content list whose items are TextContent objects or dictionaries
RECURSIVE ReprContent(_)
ReprContent(items) ==
    IF items = <<>> THEN <<>>
    ELSE (IF Head(items).t = "tc"
          THEN <<"TextContent", "(", "type=">> \o ReprStr(Head(items).type)
               \o <<",", "text=">> \o ReprStr(Head(items).text) \o <<")">>
          ELSE Repr(Head(items)))
         \o (IF Len(items) > 1 THEN <<",">> ELSE <<>>)
         \o ReprContent(Tail(items))

\* repr of the result field of a JsonRpcResponse
ReprResult(r) ==
    IF r.t # "tcr" THEN Repr(r)
    ELSE <<"ToolCallResult", "(", "content=", "[">> \o ReprContent(r.content)
         \o <<"]", ",", "isError=", IF r.isError THEN "True" ELSE "False", ",", "message=">>
         \o Repr(r.message) \o <<")">>

\* str(response)
Str(v) ==
    CASE v.t = "str" -> v.s
      [] v.t = "msg" /\ v.root = "JSONRPCResponse" ->
            <<"root=", "JSONRPCResponse", "(", "jsonrpc=", SQ, "2.0", SQ, ",", "id=">>
            \o ReprStr(v.id) \o <<",", "result=">> \o Repr(v.result) \o <<")">>
      [] v.t = "msg" /\ v.root = "JSONRPCError" ->
            <<"root=", "JSONRPCError", "(", "jsonrpc=", SQ, "2.0", SQ, ",", "id=">>
            \o ReprStr(v.id)
            \o <<",", "error=", "ErrorData", "(", "code=", "1", ",", "message=", SQ, "failed", SQ,
                 ",", "data=", "None", ")", ")">>
      [] v.t = "resp" /\ v.dump = "root" ->
            <<"root=", "JSONRPCResponse", "(", "jsonrpc=", SQ, "2.0", SQ, ",", "id=">>
            \o ReprStr(v.id) \o <<",", "result=">> \o Repr(ResultDict(v.result)) \o <<")">>
      [] v.t = "resp" /\ v.dump = "model" ->
            <<"jsonrpc=", SQ, "2.0", SQ, "id=">> \o ReprStr(v.id) \o <<"result=">>
            \o ReprResult(v.result) \o <<"error=", "None">>
      [] v.t = "exc" -> <<v.name>>
      [] OTHER -> <<"object">>

\* a check that takes no received value for an exception
IsException_Never(v) == FALSE

\* isinstance(response, Exception)
IsException(v) == v.t = "exc"

\* str(n) of a non-negative integer
Digits == <<"0", "1", "2", "3", "4", "5", "6", "7", "8", "9">>
RECURSIVE DecStr(_)
DecStr(n) == IF n < 10 THEN <<Digits[n + 1]>> ELSE DecStr(n \div 10) \o <<Digits[(n % 10) + 1]>>

\* the JSONRPCMessage objects the client writes
Request(id, method, params) == [id |-> id, method |-> method, params |-> params]
\* a notification that is stamped like a request
Notification_WithId(method) == [id |-> <<"0">>, method |-> method]
Notification(method) == [method |-> method]

InitializeParams ==
    PyDict(<< <<PyStr(<<"protocolVersion">>), PyStr(<<"2024-11-05">>)>>,
              <<PyStr(<<"capabilities">>), PyDict(<< <<PyStr(<<"sampling">>), PyDict(<<>>)>> >>)>>,
              <<PyStr(<<"clientInfo">>),
                PyDict(<< <<PyStr(<<"name">>), PyStr(<<"MCP", "Python", "Client">>)>>,
                          <<PyStr(<<"version">>), PyStr(<<"0.1.0">>)>> >>)>> >>)

ToolCallParams(name, arguments) ==
    PyDict(<< <<PyStr(<<"name">>), PyStr(<<name>>)>>, <<PyStr(<<"arguments">>), arguments>> >>)

\* ------------------------------------------------------------------------
\* list_tools: the tool list recovered from a reply (client.py 466-480)
\* ------------------------------------------------------------------------

NoTools == PyList(<<>>)

\* response_str = str(response); available_tools = []; if it starts with "root=":
\* tools = extract_jsonrpc(response_str, "tools"); if tools: available_tools = tools
ParseToolsList(response) ==
    With(PyStr(Str(response)), LAMBDA response_str :
        IF ~StartsWithRoot(response_str) THEN NoTools
        ELSE With(extract_jsonrpc(response_str, <<"tools">>), LAMBDA tools :
             IF Truthy(tools) THEN tools ELSE NoTools))

\* ------------------------------------------------------------------------
\* call_tool: what is returned for a received value (client.py 559-632)
\* ------------------------------------------------------------------------

Returned(v) == [kind |-> "return", val |-> v]
Raised(e) == [kind |-> "raise", val |-> e]

TypeError == ExcObject("TypeError")
RuntimeError == ExcObject("RuntimeError")

\* for content_item in content_list: the first dict item with type 'text' that
\* has a 'text' entry; other items are skipped (client.py 593-596)
RECURSIVE FirstTypedText(_)
FirstTypedText(items) ==
    IF items = <<>> THEN [found |-> FALSE, v |-> PyNone]
    ELSE LET it == Head(items) IN
         IF it.t = "dict" /\ HasKey(it, KType) /\ GetKey(it, KType) = KText /\ HasKey(it, KText)
         THEN [found |-> TRUE, v |-> GetKey(it, KText)]
         ELSE FirstTypedText(Tail(items))

\* the same loop over response.result.content, whose items are objects with
\* attributes (client.py 604-608)
RECURSIVE FirstTextAttr(_)
FirstTextAttr(items) ==
    IF items = <<>> THEN [found |-> FALSE, v |-> PyNone]
    ELSE LET it == Head(items) IN
         IF it.t = "tc" /\ it.type = <<"text">>
         THEN [found |-> TRUE, v |-> PyStr(it.text)]
         ELSE FirstTextAttr(Tail(items))

\* the loop over json_data['result']['content'], where content_item.get raises on
\* an item that is no dict (client.py 620-622)
RECURSIVE FirstJsonText(_)
FirstJsonText(items) ==
    IF items = <<>> THEN [found |-> FALSE, raised |-> FALSE, v |-> PyNone]
    ELSE LET it == Head(items) IN
         IF it.t # "dict" THEN [found |-> FALSE, raised |-> TRUE, v |-> PyNone]
         ELSE IF HasKey(it, KType) /\ GetKey(it, KType) = KText /\ HasKey(it, KText)
         THEN [found |-> TRUE, raised |-> FALSE, v |-> GetKey(it, KText)]
         ELSE FirstJsonText(Tail(items))

\* what `for x in v` walks through; iterable is FALSE where it raises TypeError
IterItems(v) ==
    CASE v.t = "list" -> [iterable |-> TRUE, items |-> v.items]
      [] v.t = "dict" -> [iterable |-> TRUE, items |-> [i \in 1..Len(v.kv) |-> v.kv[i][1]]]
      [] v.t = "str"  -> [iterable |-> TRUE, items |-> [i \in 1..Len(v.s) |-> PyStr(<<v.s[i]>>)]]
      [] OTHER -> [iterable |-> FALSE, items |-> <<>>]

\* client.py 560-576: a "root=" string; taken is FALSE when the code falls through
RootStringStage(response) ==
    With(extract_jsonrpc(response, <<>>), LAMBDA result :
        LET hasItem == /\ Truthy(result) /\ HasKey(result, KContent)
                       /\ GetKey(result, KContent).t = "list"
                       /\ Len(GetKey(result, KContent).items) > 0
            item == GetKey(result, KContent).items[1]
        IN IF hasItem /\ item.t = "dict" /\ HasKey(item, KText)
           THEN \* the log line slices content_item['text'][:50] before the return
                IF GetKey(item, KText).t \in {"str", "list"}
                THEN [taken |-> TRUE, out |-> Returned(GetKey(item, KText))]
                ELSE [taken |-> TRUE, out |-> Raised(TypeError)]
           ELSE With(TextMatch(response.s), LAMBDA text_match :
                IF text_match.found
                THEN [taken |-> TRUE, out |-> Returned(PyStr(text_match.group))]
                ELSE [taken |-> FALSE, out |-> Returned(response)]))

\* client.py 587-596: an object whose str() is "root=JSONRPCResponse..."
ObjectStringStage(response) ==
    With(Str(response), LAMBDA response_str :
        IF ~(Len(response_str) >= 2 /\ response_str[1] = "root="
             /\ response_str[2] = "JSONRPCResponse" /\ response.t # "str")
        THEN [taken |-> FALSE, out |-> Returned(response)]
        ELSE With(extract_jsonrpc(PyStr(response_str), <<>>), LAMBDA result :
             IF ~(Truthy(result) /\ HasKey(result, KContent))
             THEN [taken |-> FALSE, out |-> Returned(response)]
             ELSE With(IterItems(GetKey(result, KContent)), LAMBDA content :
                  IF ~content.iterable THEN [taken |-> TRUE, out |-> Returned(response)]
                  ELSE With(FirstTypedText(content.items), LAMBDA hit :
                       IF hit.found THEN [taken |-> TRUE, out |-> Returned(hit.v)]
                       ELSE [taken |-> FALSE, out |-> Returned(response)]))))

\* client.py 599-614: an object with result.content
NativeStage(response) ==
    IF ~(response.t = "resp" /\ response.result.t = "tcr")
    THEN [taken |-> FALSE, out |-> Returned(response)]
    ELSE LET hit == FirstTextAttr(response.result.content) IN
         IF hit.found THEN [taken |-> TRUE, out |-> Returned(hit.v)]
         ELSE [taken |-> TRUE, out |-> Returned(PyList(response.result.content))]

\* client.py 616-624: a string that is JSON as a whole
JsonStringStage(response) ==
    IF response.t # "str" THEN [taken |-> FALSE, out |-> Returned(response)]
    ELSE With(Parse(response.s, "json"), LAMBDA js :
       LET res == GetKey(js.v, KResult)
           hit == FirstJsonText(IterItems(GetKey(res, KContent)).items)
       IN
       IF ~js.ok THEN [taken |-> FALSE, out |-> Returned(response)]
       ELSE IF js.v.t \in {"none", "bool", "num"} THEN [taken |-> TRUE, out |-> Returned(response)]
       ELSE IF js.v.t # "dict" THEN [taken |-> TRUE, out |-> Returned(response)]
       ELSE IF ~HasKey(js.v, KResult) THEN [taken |-> FALSE, out |-> Returned(response)]
       ELSE IF res.t # "dict" THEN [taken |-> TRUE, out |-> Returned(response)]
       ELSE IF ~HasKey(res, KContent) THEN [taken |-> FALSE, out |-> Returned(response)]
       ELSE IF ~IterItems(GetKey(res, KContent)).iterable THEN [taken |-> TRUE, out |-> Returned(response)]
       ELSE IF hit.found THEN [taken |-> TRUE, out |-> Returned(hit.v)]
       ELSE [taken |-> hit.raised, out |-> Returned(response)])

\* the chain of client.py 559-632: each stage in turn, the response itself when
\* none of them returns
CallToolDecode(response) ==
    With(IF StartsWithRoot(response) THEN RootStringStage(response)
         ELSE [taken |-> FALSE, out |-> Returned(response)], LAMBDA s1 :
    IF s1.taken THEN s1.out
    ELSE With(ObjectStringStage(response), LAMBDA s2 :
    IF s2.taken THEN s2.out
    ELSE With(NativeStage(response), LAMBDA s3 :
    IF s3.taken THEN s3.out
    ELSE With(JsonStringStage(response), LAMBDA s4 :
    IF s4.taken THEN s4.out
    ELSE Returned(response)))))

\* ------------------------------------------------------------------------
\* parse_tool_response and ToolCallResult.get_text_value
\* ------------------------------------------------------------------------

\* the tuple (value, is_error, error_message) that parse_tool_response returns
Triple(value, is_error, error_message) ==
    [kind |-> "return", value |-> value, is_error |-> is_error, error_message |-> error_message]

\* return None, False, None (client.py 760, 774)
NoValue == Triple(PyNone, FALSE, PyNone)

UnknownError == PyStr(<<"Unknown", "error">>)

\* d.get(k, default)
GetOr(d, k, default) == IF HasKey(d, k) THEN GetKey(d, k) ELSE default

\* re.search(r"'text':\s*'([^']+)'", response) and what is returned on a match
\* (client.py 722-726, 752-756)
RegexTriple(response) ==
    With(TextMatch(response.s), LAMBDA text_match :
        IF text_match.found THEN Triple(PyStr(text_match.group), FALSE, PyNone) ELSE NoValue)

\* client.py 702-726: a "root=" string. Where this branch does not return, the code
\* goes on to the regex of 752-756, which is the one of 722-726 again.
ParseRootString(response) ==
    With(extract_jsonrpc(response, <<>>), LAMBDA result :
        IF Truthy(result) /\ Truthy(GetOr(result, KIsError, PyBool(FALSE)))
        THEN Triple(PyNone, TRUE, GetOr(result, KMessage, UnknownError))
        ELSE IF /\ Truthy(result) /\ HasKey(result, KContent)
                /\ GetKey(result, KContent).t = "list"
                /\ Len(GetKey(result, KContent).items) > 0
                /\ GetKey(result, KContent).items[1].t = "dict"
                /\ HasKey(GetKey(result, KContent).items[1], KText)
        THEN Triple(GetKey(GetKey(result, KContent).items[1], KText), FALSE, PyNone)
        ELSE RegexTriple(response))

\* client.py 729-749: an object with a result attribute. The first content item
\* alone is looked at; isError and message are not read. Whatever raises here
\* (len() or [0] of a content that is no list) is caught at 762 and gives
\* (None, False, None) for an object.
ParseResultAttr(response) ==
    LET result == response.result IN
    IF result.t = "tcr"
    THEN IF result.content = <<>> THEN NoValue
         ELSE LET first_item == result.content[1] IN
              IF first_item.t = "tc" THEN Triple(PyStr(first_item.text), FALSE, PyNone)
              ELSE IF first_item.t = "dict" /\ HasKey(first_item, KText)
              THEN Triple(GetKey(first_item, KText), FALSE, PyNone)
              ELSE NoValue
    ELSE IF result.t = "dict" /\ HasKey(result, KContent)
    THEN LET content == GetKey(result, KContent) IN
         IF content.t = "list" /\ Len(content.items) > 0
            /\ content.items[1].t = "dict" /\ HasKey(content.items[1], KText)
         THEN Triple(GetKey(content.items[1], KText), FALSE, PyNone)
         ELSE NoValue
    ELSE NoValue

\* parse_tool_response (client.py 681-774)
parse_tool_response(response) ==
    IF StartsWithRoot(response) THEN ParseRootString(response)
    ELSE IF response.t = "resp" THEN ParseResultAttr(response)
    ELSE IF response.t = "str" THEN RegexTriple(response)
    ELSE NoValue

\* a get_text_value that reads the last content item, not the first
get_text_value_LastItem(self) ==
    IF self.content = <<>> THEN PyNone
    ELSE LET last_item == self.content[Len(self.content)] IN
         IF last_item.t = "tc" THEN PyStr(last_item.text)
         ELSE IF last_item.t = "dict" /\ HasKey(last_item, KText) THEN GetKey(last_item, KText)
         ELSE PyNone

\* ToolCallResult.get_text_value (client.py 137-148)
get_text_value(self) ==
    IF self.content = <<>> THEN PyNone
    ELSE LET first_item == self.content[1] IN
         IF first_item.t = "tc" THEN PyStr(first_item.text)
         ELSE IF first_item.t = "dict" /\ HasKey(first_item, KText) THEN GetKey(first_item, KText)
         ELSE PyNone

\* ------------------------------------------------------------------------
\* What the peer sends
\* ------------------------------------------------------------------------

\* tool descriptors a peer may list
ToolRandom ==
    PyDict(<< <<PyStr(<<"name">>), PyStr(<<"random_uint64">>)>>,
              <<PyStr(<<"description">>), PyStr(<<"Generate", "a", "random", "uint64">>)>> >>)
ToolDdls ==
    PyDict(<< <<PyStr(<<"name">>), PyStr(<<"postgres_schema_ddls">>)>>,
              <<PyStr(<<"description">>), PyStr(<<"Examples", SQ, "public", SQ>>)>> >>)
ToolExists ==
    PyDict(<< <<PyStr(<<"name">>), PyStr(<<"table_exists">>)>>,
              <<PyStr(<<"description">>), PyStr(<<"Returns", "True", "or", "False">>)>> >>)

ToolsResult(tools) == PyDict(<< <<PyStr(<<"tools">>), PyList(tools)>> >>)

ContentResult ==
    PyDict(<< <<KContent, PyList(<< PyDict(<< <<KType, KText>>, <<KText, PyStr(<<"42">>)>> >>) >>)>>,
              <<PyStr(<<"isError">>), PyBool(FALSE)>> >>)

\* the result objects of the replies a peer sends
Results ==
    { ToolsResult(<<ToolRandom, ToolDdls>>), ToolsResult(<<ToolExists>>), ToolsResult(<<>>),
      ContentResult }

\* a reply in string form whose result fragment is no literal that can be parsed
UnparsableReply(id) ==
    PyStr(<<"root=", "JSONRPCResponse", "(", "jsonrpc=", SQ, "2.0", SQ, ",", "id=">>
          \o ReprStr(id)
          \o <<",", "result=", "{", SQ, "tools", SQ, ":", "[", "Tool", "(", "name=", SQ,
               "random_uint64", SQ, ")", "]", "}", ")">>)

\* what the read stream may deliver in answer to the request with this id
Replies(id) ==
    {MsgResponse(id, r) : r \in Results}
    \cup {MsgError(id),
          PyStr(Str(MsgResponse(id, ToolsResult(<<ToolRandom>>)))),
          PyStr(<<"hello">>),
          UnparsableReply(id),
          ExcObject("McpError"),
          RecvRaises}

\* ------------------------------------------------------------------------
\* The session
\* ------------------------------------------------------------------------

\* the request-id counter is capped so that the state space is finite
MaxId == 3

Clients == {1, 2}
Tasks == {1, 2}

VARIABLES
    transport,        \* Client.transport is set
    streams,          \* Client.streams is set
    request_id,       \* Client._request_id
    returned,         \* what _get_next_request_id has returned, call after call
    initialized,      \* Client.initialized
    available_tools,  \* Client.available_tools
    outbound,         \* what has been written to write_stream, in order
    inbound,          \* what read_stream.receive() will deliver, in order
    unanswered,       \* ids of the requests written that the peer has not answered
    cl,               \* the Client a task works on
    pc,               \* the await a task is suspended at ("idle": between calls)
    op,               \* the public method a task is running
    call,             \* call_tool's arguments (tool_name, params)
    req,              \* the message of the pending write_stream.send
    response,         \* the local `response` of the running method
    received,         \* the values the running (or last) call has received, in order
    init_response,    \* the local `init_response` of Client.initialize
    outcome,          \* how the last call of a task ended
    events,           \* what the running (or last) call has done, in order
    snap,             \* the session as it was when the call began
    parsed,           \* parse_tool_response: its argument and the tuple it returned
    text_value,       \* get_text_value: the ToolCallResult and what it returned
    extracted,        \* extract_jsonrpc: its arguments and how it ended
    fetch,            \* the server's fetch_tool: its arguments and what it returned
    wrapper,          \* MCPServerWrapper: _initialized, _init_event, _init_lock
    coro,             \* the server's coroutines that call initialize or wait for it
    body_runs         \* how often the initialization body has begun and completed

vars == <<transport, streams, request_id, returned, initialized, available_tools,
          outbound, inbound, unanswered, cl, pc, op, call, req, response, received,
          init_response, outcome, events, snap, parsed, text_value, extracted,
          fetch, wrapper, coro, body_runs>>

serverVars == <<fetch, wrapper, coro, body_runs>>

\* ------------------------------------------------------------------------
\* The server (mcp_server/server.py): the tool dispatcher fetch_tool and the
\* initialization of MCPServerWrapper
\* ------------------------------------------------------------------------

\* class Command (server.py 27-34): the names fetch_tool compares with, and the
\* parameter each of them requires ("" for none)
Command ==
    {"random_uint64", "postgres_schemas", "postgres_schema_ddls", "postgres_query_select",
     "mysql_query_select", "mysql_schema_ddls"}

RequiredParameter(name) ==
    CASE name \in {"postgres_schema_ddls", "mysql_schema_ddls"} -> "schema_name"
      [] name \in {"postgres_query_select", "mysql_query_select"} -> "query"
      [] OTHER -> ""

\* [types.TextContent(type="text", text=...)]
TextResponse(text) == <<TextContent(<<"text">>, text)>>

\* the text returned when the required parameter is missing or empty; its last
\* token stands for the hint that differs from tool to tool
MissingParameterText(name) ==
    <<"Error:", "Missing", "required", "parameter", SQ, RequiredParameter(name), SQ, ".", name>>

UnknownToolText(name) == <<"Unknown", "tool:", name>>

ErrorProcessingText(e) == <<"Error", "processing", "tool", "request:">> \o e

\* what a tool handler does when it is awaited: every handler returns a list of one
\* TextContent (its result or the error text of its own except clause), or an
\* exception leaves it (server.py 128-141, 143-253, 403-455, 661-746, 749-878,
\* 881-975)
HandlerOutcomes ==
    { Returned(TextResponse(<<"42">>)),
      Returned(TextResponse(<<"Error", "executing", "query:", "timeout">>)),
      Raised(<<"connection", "refused">>) }

\* a dispatcher that awaits the handler whatever the arguments are
fetch_tool_NoValidation(name, arguments, handler) ==
    IF name \notin Command THEN [out |-> Returned(TextResponse(UnknownToolText(name))), invoked |-> FALSE]
    ELSE IF handler.kind = "raise"
    THEN [out |-> Returned(TextResponse(ErrorProcessingText(handler.val))), invoked |-> TRUE]
    ELSE [out |-> handler, invoked |-> TRUE]

\* fetch_tool (server.py 1103-1157): the value it returns or the exception that
\* leaves it, and whether the tool handler was awaited
fetch_tool(name, arguments, handler) ==
    IF name \notin Command
    THEN [out |-> Returned(TextResponse(UnknownToolText(name))), invoked |-> FALSE]
    ELSE IF RequiredParameter(name) # ""
            /\ ~Truthy(GetOr(arguments, PyStr(<<RequiredParameter(name)>>), PyNone))
    THEN [out |-> Returned(TextResponse(MissingParameterText(name))), invoked |-> FALSE]
    ELSE IF handler.kind = "raise"
    THEN [out |-> Returned(TextResponse(ErrorProcessingText(handler.val))), invoked |-> TRUE]
    ELSE [out |-> handler, invoked |-> TRUE]

\* fetch_tool has not been called
NoFetch == [kind |-> "none"]

\* the coroutines of the server that call MCPServerWrapper.initialize: the startup
\* hook (server.py 1323-1326), MCPServerWrapper.run (1274-1277) and two handlers
\* of HTTP requests that run side by side (1303-1309); and one that awaits
\* wait_for_initialization
HttpHandlers == {"handle_http_1", "handle_http_2"}
Callers == {"startup", "run"} \cup HttpHandlers
Waiters == {"waiter"}
Coros == Callers \cup Waiters

\* MCPServerWrapper.__init__ (server.py 1091-1099); init_lock is the coroutine that
\* holds _init_lock, "" when it is free
InitWrapper ==
    wrapper = [initialized |-> FALSE, init_event |-> FALSE, init_lock |-> ""]

\* the server as it is built, nothing called yet
InitServer ==
    /\ fetch = NoFetch
    /\ InitWrapper
    /\ coro = [k \in Coros |-> [pc |-> "idle", calls |-> 0, outcome |-> "none"]]
    /\ body_runs = [begun |-> 0, completed |-> 0]

clientVars == <<transport, streams, request_id, returned, initialized, available_tools>>
idVars == <<request_id, returned>>
clientVars_but_id == <<transport, streams, initialized, available_tools>>
taskVars == <<pc, op, call, req, response, received, init_response, outcome, events, snap>>

\* a counter that is never advanced, so that an id is handed out twice
NextRequestId_Stuck(n) == n

\* self._request_id += 1
NextRequestId(n) == n + 1

\* a counter kept on the class: every Client sees each id that is handed out
GetNextRequestId_Shared(c) ==
    /\ request_id' = [x \in Clients |-> NextRequestId(request_id[x])]
    /\ returned' = [returned EXCEPT ![c] = Append(@, DecStr(request_id'[c]))]

\* _get_next_request_id: self._request_id += 1; return str(self._request_id)
GetNextRequestId(c) ==
    /\ request_id' = [request_id EXCEPT ![c] = NextRequestId(@)]
    /\ returned' = [returned EXCEPT ![c] = Append(@, DecStr(request_id'[c]))]

NoOutcome == [kind |-> "none", val |-> PyNone]

\* tool_name and params of the call_tool calls that are made
CallInputs ==
    { [name |-> "random_uint64", arguments |-> PyDict(<<>>)],
      [name |-> "postgres_schema_ddls",
       arguments |-> PyDict(<< <<PyStr(<<"schema_name">>), PyStr(<<"public">>)>> >>)] }

\* the function has not been called
NotApplied == [kind |-> "none"]

NoCall == [name |-> "", arguments |-> PyDict(<<>>)]
NoMessage == Notification("")

Snapshot(c) ==
    [initialized |-> initialized[c], available_tools |-> available_tools[c],
     request_id |-> request_id[c], streams |-> streams[c], written |-> Len(outbound[c])]

\* Client.__init__ (client.py 243-248), for every Client; task 1 works on Client 1
InitClients ==
    /\ transport \in [Clients -> BOOLEAN]
    /\ streams = [c \in Clients |-> FALSE]
    /\ request_id = [c \in Clients |-> 0]
    /\ returned = [c \in Clients |-> <<>>]
    /\ initialized = [c \in Clients |-> FALSE]
    /\ available_tools = [c \in Clients |-> NoTools]
    /\ outbound = [c \in Clients |-> <<>>]
    /\ inbound = [c \in Clients |-> <<>>]
    /\ unanswered = [c \in Clients |-> <<>>]

InitTasks ==
    /\ op = [t \in Tasks |-> "none"]
    /\ call = [t \in Tasks |-> NoCall]
    /\ req = [t \in Tasks |-> NoMessage]
    /\ response = [t \in Tasks |-> PyNone]
    /\ received = [t \in Tasks |-> <<>>]
    /\ init_response = [t \in Tasks |-> PyNone]
    /\ outcome = [t \in Tasks |-> NoOutcome]
    /\ events = [t \in Tasks |-> <<>>]
    /\ snap = [t \in Tasks |-> [initialized |-> FALSE, available_tools |-> NoTools,
                                request_id |-> 0, streams |-> FALSE, written |-> 0]]
    /\ parsed = NotApplied
    /\ text_value = NotApplied
    /\ extracted = NotApplied

\* one task, on Client 1 (the second Client has no transport and is left alone)
Init ==
    /\ InitClients
    /\ transport[2] = FALSE
    /\ InitTasks
    /\ InitServer
    /\ cl = [t \in Tasks |-> 1]
    /\ pc = [t \in Tasks |-> IF t = 1 THEN "idle" ELSE "off"]

\* ------------------------------------------------------------------------
\* Steps shared by the methods
\* ------------------------------------------------------------------------

SendFailure == ExcObject("BrokenResourceError")
ReceiveFailure == ExcObject("EndOfStream")

Log(t, es) == events' = [events EXCEPT ![t] = @ \o es]

\* the method of task t ends: it returns a value or raises
EndCall(t, out) ==
    /\ pc' = [pc EXCEPT ![t] = "idle"]
    /\ outcome' = [outcome EXCEPT ![t] = out]
    /\ req' = [req EXCEPT ![t] = NoMessage]

\* a request stamped without a fresh id once the first id has been handed out
BeginRequest_Reuse(t, method, params, at) ==
    /\ request_id[cl[t]] < MaxId
    /\ IF request_id[cl[t]] = 0 THEN GetNextRequestId(cl[t]) ELSE UNCHANGED idVars
    /\ req' = [req EXCEPT ![t] = Request(DecStr(request_id'[cl[t]]), method, params)]
    /\ pc' = [pc EXCEPT ![t] = at]
    /\ outcome' = [outcome EXCEPT ![t] = NoOutcome]

\* request_id = self._get_next_request_id(); request = JSONRPCMessage(id=request_id,
\* method=..., params=...); then `await write_stream.send(request)` is pending
BeginRequest(t, method, params, at) ==
    /\ request_id[cl[t]] < MaxId
    /\ GetNextRequestId(cl[t])
    /\ req' = [req EXCEPT ![t] = Request(returned'[cl[t]][Len(returned'[cl[t]])], method, params)]
    /\ pc' = [pc EXCEPT ![t] = at]
    /\ outcome' = [outcome EXCEPT ![t] = NoOutcome]

\* a public method is entered
Enter(t, method, input) ==
    /\ pc[t] = "idle"
    /\ op' = [op EXCEPT ![t] = method]
    /\ call' = [call EXCEPT ![t] = input]
    /\ snap' = [snap EXCEPT ![t] = Snapshot(cl[t])]
    /\ response' = [response EXCEPT ![t] = PyNone]
    /\ received' = [received EXCEPT ![t] = <<>>]
    /\ init_response' = [init_response EXCEPT ![t] = PyNone]
    /\ events' = [events EXCEPT ![t] = <<>>]

\* `await write_stream.send(req)` completes: the message is on the stream, or
\* send raised
Written(t) ==
    /\ outbound' = [outbound EXCEPT ![cl[t]] = Append(@, req[t])]
    /\ unanswered' = [unanswered EXCEPT ![cl[t]] =
                        IF "id" \in DOMAIN req[t] THEN Append(@, req[t].id) ELSE @]

\* a list_tools that asks for the streams alone and not for the initialized flag
ListToolsBegin_NoGuard(t) ==
    IF ~streams[cl[t]]
    THEN /\ EndCall(t, IF op'[t] = "initialize" THEN Returned(init_response[t])
                       ELSE Raised(RuntimeError))
         /\ UNCHANGED idVars
    ELSE BeginRequest(t, "tools/list", PyDict(<<>>), "lt_send")

\* list_tools begins (client.py 391-408), called by the user or by initialize
ListToolsBegin(t) ==
    IF ~streams[cl[t]] \/ ~initialized'[cl[t]]
    THEN /\ EndCall(t, IF op'[t] = "initialize" THEN Returned(init_response[t])
                       ELSE Raised(RuntimeError))
         /\ UNCHANGED idVars
    ELSE BeginRequest(t, "tools/list", PyDict(<<>>), "lt_send")

\* a list_tools whose failure (None) reaches the caller of initialize as an error
ListToolsEnd_Raises(t, v) ==
    EndCall(t, IF op[t] = "initialize"
               THEN (IF v = PyNone THEN Raised(RuntimeError) ELSE Returned(init_response[t]))
               ELSE Returned(v))

\* list_tools ends with value v: its caller gets v, but initialize drops it and
\* returns init_response (client.py 266-275)
ListToolsEnd(t, v) ==
    EndCall(t, IF op[t] = "initialize" THEN Returned(init_response[t]) ELSE Returned(v))

\* ------------------------------------------------------------------------
\* The handshake: _send_initialize_request and _send_initialized_notification
\* ------------------------------------------------------------------------

\* a handshake that builds and sends its request without asking for the streams
HandshakeBegin_NoCheck(t, strm) ==
    BeginRequest(t, "initialize", InitializeParams, "hs_send")

\* _send_initialize_request up to its send (client.py 277-308)
HandshakeBegin(t, strm) ==
    IF ~strm
    THEN /\ EndCall(t, Raised(RuntimeError))
         /\ UNCHANGED idVars
    ELSE BeginRequest(t, "initialize", InitializeParams, "hs_send")

\* Client.initialize up to the first await (client.py 250-260, 277-308)
Initialize(t) ==
    /\ Enter(t, "initialize", NoCall)
    /\ request_id[cl[t]] + 2 <= MaxId
    /\ streams' = [streams EXCEPT ![cl[t]] = IF transport[cl[t]] THEN TRUE ELSE @]
    /\ HandshakeBegin(t, streams'[cl[t]])
    /\ UNCHANGED <<transport, initialized, available_tools, outbound, inbound, unanswered, cl, extracted, serverVars, parsed, text_value>>

\* Client.initialize_with_streams up to the first await (client.py 383-388)
InitializeWithStreams(t) ==
    /\ Enter(t, "initialize_with_streams", NoCall)
    /\ request_id[cl[t]] + 1 <= MaxId
    /\ streams' = [streams EXCEPT ![cl[t]] = TRUE]
    /\ HandshakeBegin(t, streams'[cl[t]])
    /\ UNCHANGED <<transport, initialized, available_tools, outbound, inbound, unanswered, cl, extracted, serverVars, parsed, text_value>>

\* a handshake that does not wait for the reply: the notification follows the
\* request at once
SendInitializeRequest_NoWait(t) ==
    /\ pc[t] = "hs_send"
    /\ \/ /\ Written(t)
          /\ pc' = [pc EXCEPT ![t] = "notif_send"]
          /\ req' = [req EXCEPT ![t] = Notification("notifications/initialized")]
          /\ Log(t, <<"write:initialize">>)
          /\ UNCHANGED outcome
       \/ /\ EndCall(t, Raised(SendFailure))
          /\ Log(t, <<"send_failed:initialize">>)
          /\ UNCHANGED <<outbound, unanswered>>
    /\ UNCHANGED <<clientVars, inbound, cl, extracted, serverVars, parsed, text_value, op, call, response, received, init_response, snap>>

\* `await write_stream.send(request)` of the initialize request completes
\* (client.py 306-316)
SendInitializeRequest(t) ==
    /\ pc[t] = "hs_send"
    /\ \/ /\ Written(t)
          /\ pc' = [pc EXCEPT ![t] = "hs_recv"]
          /\ req' = [req EXCEPT ![t] = NoMessage]
          /\ Log(t, <<"write:initialize">>)
          /\ UNCHANGED outcome
       \/ /\ EndCall(t, Raised(SendFailure))
          /\ Log(t, <<"send_failed:initialize">>)
          /\ UNCHANGED <<outbound, unanswered>>
    /\ UNCHANGED <<clientVars, inbound, cl, extracted, serverVars, parsed, text_value, op, call, response, received, init_response, snap>>

\* `await read_stream.receive()` of the handshake completes; on a reply that is no
\* exception initialized is set and the initialized notification is built
\* (client.py 317-352, 354-372)
ReceiveInitializeResponse(t) ==
    /\ pc[t] = "hs_recv"
    /\ inbound[cl[t]] # <<>>
    /\ inbound' = [inbound EXCEPT ![cl[t]] = Tail(@)]
    /\ LET v == Head(inbound[cl[t]]) IN
       IF v.t = "raise"
       THEN /\ EndCall(t, Raised(ReceiveFailure))
            /\ Log(t, <<"receive_failed:initialize">>)
            /\ UNCHANGED <<initialized, response, received, init_response>>
       ELSE /\ response' = [response EXCEPT ![t] = v]
            /\ received' = [received EXCEPT ![t] = Append(@, v)]
            /\ Log(t, <<"recv:initialize">>)
            /\ IF IsException(v)
               THEN /\ EndCall(t, Raised(v))
                    /\ UNCHANGED <<initialized, init_response>>
               ELSE /\ initialized' = [initialized EXCEPT ![cl[t]] = TRUE]
                    /\ init_response' = [init_response EXCEPT ![t] =
                                            IF op[t] = "initialize" THEN v ELSE @]
                    /\ pc' = [pc EXCEPT ![t] = "notif_send"]
                    /\ req' = [req EXCEPT ![t] = Notification("notifications/initialized")]
                    /\ UNCHANGED outcome
    /\ UNCHANGED <<transport, streams, idVars, available_tools, outbound, unanswered,
                   cl, extracted, serverVars, parsed, text_value, op, call, snap>>

\* a notification whose failed send ends the caller with the exception
SendInitializedNotification_Raises(t) ==
    /\ pc[t] = "notif_send"
    /\ UNCHANGED <<transport, streams, initialized, available_tools, inbound, cl, extracted, serverVars,
                   parsed, text_value, op, call, response, received, init_response, snap>>
    /\ \/ /\ Written(t)
          /\ Log(t, <<"write:notifications/initialized">>)
          /\ CASE op[t] = "initialize" -> ListToolsBegin(t)
               [] op[t] = "call_tool" ->
                    BeginRequest(t, "tools/call",
                                 ToolCallParams(call[t].name, call[t].arguments), "ct_send")
               [] OTHER -> EndCall(t, Returned(PyNone)) /\ UNCHANGED idVars
       \/ /\ Log(t, <<"send_failed:notifications/initialized">>)
          /\ EndCall(t, Raised(SendFailure))
          /\ UNCHANGED <<outbound, unanswered, idVars>>

\* `await write_stream.send(notification)` completes, a failure being logged and
\* dropped (client.py 370-376); then the caller goes on: initialize to list_tools
\* (266-269), call_tool to its tools/call request (522-547), and
\* initialize_with_streams returns
SendInitializedNotification(t) ==
    /\ pc[t] = "notif_send"
    /\ \/ /\ Written(t)
          /\ Log(t, <<"write:notifications/initialized">>)
       \/ /\ Log(t, <<"send_failed:notifications/initialized">>)
          /\ UNCHANGED <<outbound, unanswered>>
    /\ UNCHANGED <<transport, streams, initialized, available_tools, inbound, cl, extracted, serverVars, parsed, text_value, op, call,
                   response, received, init_response, snap>>
    /\ CASE op[t] = "initialize" -> ListToolsBegin(t)
         [] op[t] = "call_tool" ->
              BeginRequest(t, "tools/call", ToolCallParams(call[t].name, call[t].arguments),
                           "ct_send")
         [] OTHER -> EndCall(t, Returned(PyNone)) /\ UNCHANGED idVars

\* ------------------------------------------------------------------------
\* list_tools
\* ------------------------------------------------------------------------

\* list_tools called by the user, up to its send (client.py 391-413)
ListTools(t) ==
    /\ Enter(t, "list_tools", NoCall)
    /\ UNCHANGED <<clientVars_but_id, outbound, inbound, unanswered, cl, extracted, serverVars, parsed, text_value>>
    /\ ListToolsBegin(t)

\* `await write_stream.send(request)` of tools/list completes; a failure is caught
\* by the outer handler, which returns None (client.py 410-419, 505-508)
SendToolsList(t) ==
    /\ pc[t] = "lt_send"
    /\ \/ /\ Written(t)
          /\ pc' = [pc EXCEPT ![t] = "lt_recv"]
          /\ req' = [req EXCEPT ![t] = NoMessage]
          /\ Log(t, <<"write:tools/list">>)
          /\ UNCHANGED outcome
       \/ /\ ListToolsEnd(t, PyNone)
          /\ Log(t, <<"send_failed:tools/list">>)
          /\ UNCHANGED <<outbound, unanswered>>
    /\ UNCHANGED <<clientVars, inbound, cl, extracted, serverVars, parsed, text_value, op, call, response, received, init_response, snap>>

\* a list_tools that empties available_tools as soon as a value has arrived, an
\* exception object included
ReceiveToolsList_ClearsFirst(t) ==
    /\ pc[t] = "lt_recv"
    /\ inbound[cl[t]] # <<>>
    /\ inbound' = [inbound EXCEPT ![cl[t]] = Tail(@)]
    /\ LET v == Head(inbound[cl[t]]) IN
       IF v.t = "raise"
       THEN /\ ListToolsEnd(t, PyNone)
            /\ Log(t, <<"receive_failed:tools/list">>)
            /\ UNCHANGED <<available_tools, response, received>>
       ELSE /\ response' = [response EXCEPT ![t] = v]
            /\ received' = [received EXCEPT ![t] = Append(@, v)]
            /\ IF IsException(v)
               THEN /\ ListToolsEnd(t, PyNone)
                    /\ Log(t, <<"recv:tools/list", "decode:extract_jsonrpc">>)
                    /\ available_tools' = [available_tools EXCEPT ![cl[t]] = NoTools]
               ELSE /\ available_tools' = [available_tools EXCEPT ![cl[t]] = ParseToolsList(v)]
                    /\ ListToolsEnd(t, v)
                    /\ Log(t, <<"recv:tools/list", "decode:extract_jsonrpc", "decode:str">>
                              \o (IF StartsWithRoot(PyStr(Str(v)))
                                  THEN <<"decode:extract_jsonrpc">> ELSE <<>>))
    /\ UNCHANGED <<transport, streams, idVars, initialized, outbound, unanswered,
                   cl, extracted, serverVars, parsed, text_value, op, call, init_response, snap>>

\* asyncio.wait_for(read_stream.receive(), timeout=5.0) completes with a value or
\* with receive raising; the value goes through extract_jsonrpc, then the exception
\* check, then the parse that assigns available_tools (client.py 416-504)
ReceiveToolsList(t) ==
    /\ pc[t] = "lt_recv"
    /\ inbound[cl[t]] # <<>>
    /\ inbound' = [inbound EXCEPT ![cl[t]] = Tail(@)]
    /\ LET v == Head(inbound[cl[t]]) IN
       IF v.t = "raise"
       THEN /\ ListToolsEnd(t, PyNone)
            /\ Log(t, <<"receive_failed:tools/list">>)
            /\ UNCHANGED <<available_tools, response, received>>
       ELSE /\ response' = [response EXCEPT ![t] = v]
            /\ received' = [received EXCEPT ![t] = Append(@, v)]
            /\ IF IsException(v)
               THEN /\ ListToolsEnd(t, PyNone)
                    /\ Log(t, <<"recv:tools/list", "decode:extract_jsonrpc">>)
                    /\ UNCHANGED available_tools
               ELSE /\ available_tools' = [available_tools EXCEPT ![cl[t]] = ParseToolsList(v)]
                    /\ ListToolsEnd(t, v)
                    /\ Log(t, <<"recv:tools/list", "decode:extract_jsonrpc", "decode:str">>
                              \o (IF StartsWithRoot(PyStr(Str(v)))
                                  THEN <<"decode:extract_jsonrpc">> ELSE <<>>))
    /\ UNCHANGED <<transport, streams, idVars, initialized, outbound, unanswered,
                   cl, extracted, serverVars, parsed, text_value, op, call, init_response, snap>>

\* a time limit that is taken for the loss of the connection: the session is marked
\* as not initialized
ToolsListTimeout_Reset(t) ==
    /\ pc[t] = "lt_recv"
    /\ inbound[cl[t]] = <<>>
    /\ ListToolsEnd(t, PyNone)
    /\ Log(t, <<"timeout:tools/list">>)
    /\ initialized' = [initialized EXCEPT ![cl[t]] = FALSE]
    /\ UNCHANGED <<transport, streams, idVars, available_tools, outbound, inbound, unanswered,
                   cl, extracted, serverVars, parsed, text_value, op, call, response, received, init_response, snap>>

\* the 5 seconds of asyncio.wait_for pass with nothing to receive: list_tools
\* returns None (client.py 439-441)
ToolsListTimeout(t) ==
    /\ pc[t] = "lt_recv"
    /\ inbound[cl[t]] = <<>>
    /\ ListToolsEnd(t, PyNone)
    /\ Log(t, <<"timeout:tools/list">>)
    /\ UNCHANGED <<clientVars, outbound, inbound, unanswered, cl, extracted, serverVars, parsed, text_value, op, call, response,
                   received, init_response, snap>>

\* ------------------------------------------------------------------------
\* call_tool
\* ------------------------------------------------------------------------

\* a call_tool that goes to its tools/call request whatever the initialized flag is
CallTool_NoHandshake(t, input) ==
    /\ Enter(t, "call_tool", input)
    /\ UNCHANGED <<clientVars_but_id, outbound, inbound, unanswered, cl, extracted, serverVars, parsed, text_value>>
    /\ IF ~streams[cl[t]]
       THEN EndCall(t, Raised(RuntimeError)) /\ UNCHANGED idVars
       ELSE BeginRequest(t, "tools/call", ToolCallParams(input.name, input.arguments),
                         "ct_send")

\* call_tool up to its first await: the handshake when the client is not
\* initialized, else the tools/call request (client.py 511-547)
CallTool(t, input) ==
    /\ Enter(t, "call_tool", input)
    /\ UNCHANGED <<clientVars_but_id, outbound, inbound, unanswered, cl, extracted, serverVars, parsed, text_value>>
    /\ IF ~streams[cl[t]]
       THEN EndCall(t, Raised(RuntimeError)) /\ UNCHANGED idVars
       ELSE IF ~initialized[cl[t]]
       THEN request_id[cl[t]] + 2 <= MaxId /\ HandshakeBegin(t, streams[cl[t]])
       ELSE BeginRequest(t, "tools/call", ToolCallParams(input.name, input.arguments),
                         "ct_send")

\* `await write_stream.send(request)` of tools/call completes; a failure is not
\* caught (client.py 546-547)
SendToolsCall(t) ==
    /\ pc[t] = "ct_send"
    /\ \/ /\ Written(t)
          /\ pc' = [pc EXCEPT ![t] = "ct_recv"]
          /\ req' = [req EXCEPT ![t] = NoMessage]
          /\ Log(t, <<"write:tools/call">>)
          /\ UNCHANGED outcome
       \/ /\ EndCall(t, Raised(SendFailure))
          /\ Log(t, <<"send_failed:tools/call">>)
          /\ UNCHANGED <<outbound, unanswered>>
    /\ UNCHANGED <<clientVars, inbound, cl, extracted, serverVars, parsed, text_value, op, call, response, received, init_response, snap>>

\* a call_tool that takes a reply only when it carries the id of its request, and
\* raises on any other
ReceiveToolsCall_MatchId(t) ==
    /\ pc[t] = "ct_recv"
    /\ inbound[cl[t]] # <<>>
    /\ inbound' = [inbound EXCEPT ![cl[t]] = Tail(@)]
    /\ LET v == Head(inbound[cl[t]]) IN
       IF v.t = "raise"
       THEN /\ EndCall(t, Raised(ReceiveFailure))
            /\ Log(t, <<"receive_failed:tools/call">>)
            /\ UNCHANGED <<response, received>>
       ELSE /\ response' = [response EXCEPT ![t] = v]
            /\ received' = [received EXCEPT ![t] = Append(@, v)]
            /\ IF IsException(v)
               THEN /\ EndCall(t, Raised(v))
                    /\ Log(t, <<"recv:tools/call">>)
               ELSE /\ EndCall(t, IF v.t = "msg" /\ v.id # DecStr(request_id[cl[t]])
                                  THEN Raised(RuntimeError) ELSE CallToolDecode(v))
                    /\ Log(t, <<"recv:tools/call", "decode:call_tool">>)
    /\ UNCHANGED <<clientVars, outbound, unanswered, cl, extracted, serverVars, parsed, text_value, op, call, init_response, snap>>

\* `await read_stream.receive()` of call_tool completes: an exception object is
\* raised, any other value is decoded and the outcome returned (client.py 549-632)
ReceiveToolsCall(t) ==
    /\ pc[t] = "ct_recv"
    /\ inbound[cl[t]] # <<>>
    /\ inbound' = [inbound EXCEPT ![cl[t]] = Tail(@)]
    /\ LET v == Head(inbound[cl[t]]) IN
       IF v.t = "raise"
       THEN /\ EndCall(t, Raised(ReceiveFailure))
            /\ Log(t, <<"receive_failed:tools/call">>)
            /\ UNCHANGED <<response, received>>
       ELSE /\ response' = [response EXCEPT ![t] = v]
            /\ received' = [received EXCEPT ![t] = Append(@, v)]
            /\ IF IsException(v)
               THEN /\ EndCall(t, Raised(v))
                    /\ Log(t, <<"recv:tools/call">>)
               ELSE /\ EndCall(t, CallToolDecode(v))
                    /\ Log(t, <<"recv:tools/call", "decode:call_tool">>)
    /\ UNCHANGED <<clientVars, outbound, unanswered, cl, extracted, serverVars, parsed, text_value, op, call, init_response, snap>>

\* ------------------------------------------------------------------------
\* The surroundings: the caller that sets the streams, and the peer
\* ------------------------------------------------------------------------

\* client.streams = (read_stream, write_stream) (client.py 998-999)
AttachStreams(c) ==
    /\ ~streams[c]
    /\ \E t \in Tasks : cl[t] = c /\ pc[t] = "idle"
    /\ streams' = [streams EXCEPT ![c] = TRUE]
    /\ UNCHANGED <<transport, idVars, initialized, available_tools, outbound, inbound,
                   unanswered, cl, extracted, serverVars, parsed, text_value, taskVars>>

\* the peer (or the transport) puts one value on the read stream for the oldest
\* request it has not answered
PeerReply(c, v) ==
    /\ unanswered[c] # <<>>
    /\ inbound' = [inbound EXCEPT ![c] = Append(@, v)]
    /\ unanswered' = [unanswered EXCEPT ![c] = Tail(@)]
    /\ UNCHANGED <<clientVars, outbound, cl, extracted, serverVars, parsed, text_value, taskVars>>

TaskStep(t) ==
    \/ SendInitializeRequest(t)
    \/ ReceiveInitializeResponse(t)
    \/ SendInitializedNotification(t)
    \/ SendToolsList(t)
    \/ ReceiveToolsList(t)
    \/ ToolsListTimeout(t)
    \/ SendToolsCall(t)
    \/ ReceiveToolsCall(t)

TaskCall(t) ==
    \/ Initialize(t)
    \/ InitializeWithStreams(t)
    \/ ListTools(t)
    \/ \E input \in CallInputs : CallTool(t, input)

Environment ==
    \/ \E c \in Clients : AttachStreams(c)
    \/ \E c \in Clients :
          unanswered[c] # <<>> /\ \E v \in Replies(Head(unanswered[c])) : PeerReply(c, v)

Next ==
    \/ \E t \in Tasks : TaskCall(t)
    \/ \E t \in Tasks : TaskStep(t)
    \/ Environment

Spec == Init /\ [][Next]_vars

\* ------------------------------------------------------------------------
\* _get_next_request_id alone, called again and again on fresh Clients
\* ------------------------------------------------------------------------

\* how many times _get_next_request_id is called on one Client
MaxCalls == 12

CallGetNextRequestId(c) ==
    /\ request_id[c] < MaxCalls
    /\ GetNextRequestId(c)
    /\ UNCHANGED <<transport, streams, initialized, available_tools, outbound, inbound,
                   unanswered, cl, extracted, serverVars, parsed, text_value, taskVars>>

NextIds == \E c \in Clients : CallGetNextRequestId(c)

SpecIds == Init /\ [][NextIds]_vars

\* ------------------------------------------------------------------------
\* Properties
\* ------------------------------------------------------------------------

\* int(s) of a decimal string
DigitValue(tok) == CHOOSE d \in 0..9 : Digits[d + 1] = tok
RECURSIVE DecVal(_)
DecVal(s) ==
    IF s = <<>> THEN 0
    ELSE 10 * DecVal(SubSeq(s, 1, Len(s) - 1)) + DigitValue(s[Len(s)])

DecimalForms ==
    << <<"1">>, <<"2">>, <<"3">>, <<"4">>, <<"5">>, <<"6">>, <<"7">>, <<"8">>, <<"9">>,
       <<"1", "0">>, <<"1", "1">>, <<"1", "2">>, <<"1", "3">>, <<"1", "4">> >>

\* C1: on a fresh Client the k-th call of _get_next_request_id returns the decimal
\* form of k ("1" first), so the strings returned are distinct and strictly
\* increasing.
C1_NextIdDecimal ==
    \A c \in Clients :
        /\ \A k \in 1..Len(returned[c]) :
               k <= Len(DecimalForms) => returned[c][k] = DecimalForms[k]
        /\ \A i, j \in 1..Len(returned[c]) :
               i < j => /\ returned[c][i] # returned[c][j]
                        /\ DecVal(returned[c][i]) < DecVal(returned[c][j])

\* eleven calls on one Client: the two-digit forms are returned too
C1_Witness == \E c \in Clients : Len(returned[c]) >= 11

\* ------------------------------------------------------------------------
\* The same session under a fair scheduler: a task whose await can complete (a
\* value to receive, a send, the 5 seconds of wait_for) is resumed. The peer is
\* under no obligation to answer.
\* ------------------------------------------------------------------------

SpecFair == Spec /\ \A t \in Tasks : WF_vars(TaskStep(t))

\* ------------------------------------------------------------------------
\* What a call has done, read from the session
\* ------------------------------------------------------------------------

Last(s) == s[Len(s)]

\* the messages the running (or last) call of task t has put on the outbound stream
WrittenSince(t) == SubSeq(outbound[cl[t]], snap[t].written + 1, Len(outbound[cl[t]]))

Methods(ms) == [i \in 1..Len(ms) |-> ms[i].method]

\* the ids of the requests among the messages ms, in order
IdsOf(ms) ==
    LET rs == SelectSeq(ms, LAMBDA m : "id" \in DOMAIN m)
    IN [i \in 1..Len(rs) |-> rs[i].id]

Sending == {"hs_send", "lt_send", "ct_send"}
Receiving == {"hs_recv", "lt_recv", "ct_recv"}

NotificationAttempt ==
    {"write:notifications/initialized", "send_failed:notifications/initialized"}
ToolsListAttempt == {"write:tools/list", "send_failed:tools/list"}
ToolsCallAttempt == {"write:tools/call", "send_failed:tools/call"}

\* the method a write event has put on the stream
WriteMethod ==
    [e \in {"write:initialize", "write:notifications/initialized", "write:tools/list",
            "write:tools/call"} |->
        CASE e = "write:initialize" -> "initialize"
          [] e = "write:notifications/initialized" -> "notifications/initialized"
          [] e = "write:tools/list" -> "tools/list"
          [] OTHER -> "tools/call"]

\* the methods of the write events among es, in order
MethodsLogged(es) ==
    LET ws == SelectSeq(es, LAMBDA e : e \in DOMAIN WriteMethod)
    IN [i \in 1..Len(ws) |-> WriteMethod[ws[i]]]

\* C2: whatever operations run on a Client and however they end, every request is
\* stamped by one advance of the counter of its own: the k-th id handed out is the
\* decimal form of k, a pending request carries the counter's present value, which
\* is above every id written, and the ids written strictly increase in write order
\* (so no two are equal).
C2_FreshIdPerRequest ==
    \A c \in Clients :
        LET ids == IdsOf(outbound[c]) IN
        /\ returned[c] = [k \in 1..request_id[c] |-> DecStr(k)]
        /\ \A i \in 1..Len(ids) : \E k \in 1..Len(returned[c]) : ids[i] = returned[c][k]
        /\ \A i, j \in 1..Len(ids) :
               i < j => ids[i] # ids[j] /\ DecVal(ids[i]) < DecVal(ids[j])
        /\ \A t \in Tasks :
               cl[t] = c /\ pc[t] \in Sending =>
                   /\ DecVal(req[t].id) = request_id[c]
                   /\ \A i \in 1..Len(ids) : DecVal(ids[i]) < DecVal(req[t].id)

\* the send of the request with id 2 failed, and the next request written carries 3
C2_Witness == \E c \in Clients : IdsOf(outbound[c]) = << <<"1">>, <<"3">> >>

\* C3: in Client.initialize the initialize request is written first, its reply is
\* received second, the initialized notification is sent third and the tools/list
\* request fourth, each step only after the one before has completed; what is on
\* the outbound stream is what these writes put there, in that order.
C3_InitializeOrder ==
    \A t \in Tasks :
        op[t] = "initialize" =>
            LET es == events[t] IN
            /\ \A j \in 1..Len(es) :
                   /\ es[j] \in {"write:initialize", "send_failed:initialize"} => j = 1
                   /\ es[j] \in {"recv:initialize", "receive_failed:initialize"} =>
                          j = 2 /\ es[1] = "write:initialize"
                   /\ es[j] \in NotificationAttempt => j = 3 /\ es[2] = "recv:initialize"
                   /\ es[j] \in ToolsListAttempt => j = 4 /\ es[3] \in NotificationAttempt
            /\ Methods(WrittenSince(t)) = MethodsLogged(es)
            /\ pc[t] = "hs_send" => es = <<>>
            /\ pc[t] = "hs_recv" => es = <<"write:initialize">>
            /\ pc[t] = "notif_send" => es = <<"write:initialize", "recv:initialize">>
            /\ pc[t] = "lt_send" => Len(es) = 3
            /\ pc[t] = "lt_recv" => Len(es) = 4

\* an initialize that has written all three messages
C3_Witness ==
    \E t \in Tasks :
        /\ op[t] = "initialize"
        /\ Methods(WrittenSince(t)) = <<"initialize", "notifications/initialized", "tools/list">>
        /\ SubSeq(events[t], 1, 4) = <<"write:initialize", "recv:initialize",
                                       "write:notifications/initialized", "write:tools/list">>

\* the handshake of the initialize task t runs has failed: on its send, on its
\* receive, or by an exception object received
HandshakeFailed(t) ==
    /\ op[t] = "initialize"
    /\ \/ events[t] = <<"send_failed:initialize">>
       \/ events[t] = <<"write:initialize", "receive_failed:initialize">>
       \/ /\ Len(events[t]) >= 2
          /\ events[t][2] = "recv:initialize"
          /\ received[t][1].t = "exc"

\* C4: when the handshake of Client.initialize fails (send raises, receive raises,
\* or an exception object is received) initialize has ended by raising that failure,
\* initialized has the value it had before the call (false stays false), and the
\* call has written neither the notification nor a tools/list request.
C4_HandshakeFailureRaises ==
    \A t \in Tasks :
        HandshakeFailed(t) =>
            /\ pc[t] = "idle"
            /\ outcome[t].kind = "raise"
            /\ outcome[t].val =
                   (IF events[t] = <<"send_failed:initialize">> THEN SendFailure
                    ELSE IF events[t][2] = "receive_failed:initialize" THEN ReceiveFailure
                    ELSE received[t][1])
            /\ initialized[cl[t]] = snap[t].initialized
            /\ \A i \in 1..Len(WrittenSince(t)) : WrittenSince(t)[i].method = "initialize"

\* an initialize on a client not yet initialized whose handshake received an
\* exception object
C4_Witness ==
    \E t \in Tasks :
        /\ HandshakeFailed(t)
        /\ ~snap[t].initialized
        /\ received[t] # <<>>
        /\ received[t][1] = ExcObject("McpError")

\* the handshake of the initialize task t runs has received its reply
HandshakeDone(t) ==
    /\ op[t] = "initialize"
    /\ Len(events[t]) >= 2
    /\ events[t][2] = "recv:initialize"
    /\ received[t][1].t # "exc"

\* C5: once Client.initialize has received a handshake reply that is no exception,
\* initialized is true, and however tool discovery goes initialize ends by returning
\* that reply, never by raising.
C5_DiscoveryIsBestEffort ==
    \A t \in Tasks :
        HandshakeDone(t) =>
            /\ initialized[cl[t]]
            /\ outcome[t].kind # "raise"
            /\ pc[t] = "idle" => outcome[t] = Returned(received[t][1])

\* an initialize that has ended after its discovery received an exception object
C5_Witness ==
    \E t \in Tasks :
        /\ HandshakeDone(t)
        /\ pc[t] = "idle"
        /\ Len(received[t]) = 2
        /\ received[t][2].t = "exc"

\* list_tools (called by the user or by initialize) has run its parse on the reply
\* it received, and the task has not gone on since
Processed(t) ==
    /\ op[t] \in {"initialize", "list_tools"}
    /\ pc[t] = "idle"
    /\ events[t] # <<>>
    /\ Last(events[t]) \in {"decode:str", "decode:extract_jsonrpc"}
    /\ Last(received[t]).t # "exc"

KTools == PyStr(<<"tools">>)

\* C6: after list_tools has processed a reply whose result holds a tools array,
\* available_tools is exactly that array: the descriptors of that reply, nothing
\* else, and the empty sequence for an empty array.
C6_ToolsAreThoseOfTheReply ==
    \A t \in Tasks :
        (/\ Processed(t)
         /\ Last(received[t]).t = "msg"
         /\ Last(received[t]).root = "JSONRPCResponse"
         /\ HasKey(Last(received[t]).result, KTools))
        => available_tools[cl[t]] = GetKey(Last(received[t]).result, KTools)

\* no tool list can be recovered from the value v: its string form has no root=
\* prefix, or no result fragment that parses, or the parsed result has no tools
NoToolList(v) ==
    LET s == PyStr(Str(v))
        r == extract_jsonrpc(s, <<>>)
    IN \/ ~StartsWithRoot(s)
       \/ r = PyNone
       \/ r.t = "dict" /\ ~HasKey(r, KTools)

\* C7: after list_tools has processed a reply from which no tool list can be
\* recovered, available_tools is the empty sequence and list_tools has not raised.
C7_NoToolListLeavesEmpty ==
    \A t \in Tasks :
        Processed(t) /\ NoToolList(Last(received[t])) =>
            /\ available_tools[cl[t]] = NoTools
            /\ outcome[t].kind # "raise"

\* C8: a call_tool on a client with streams and initialized false sends its
\* tools/call request fourth, after the initialize request was written, its reply
\* received and the notification sent, with initialized true by then; on a client
\* with initialized true the tools/call request is the one message it writes. The
\* request carries {name, arguments} of the call.
C8_CallToolHandshakesFirst ==
    \A t \in Tasks :
        op[t] = "call_tool" /\ snap[t].streams =>
            LET es == events[t]
                ms == WrittenSince(t)
            IN
            /\ Methods(ms) = MethodsLogged(es)
            /\ \A i \in 1..Len(ms) :
                   ms[i].method = "tools/call" =>
                       /\ i = Len(ms)
                       /\ ms[i].params = ToolCallParams(call[t].name, call[t].arguments)
            /\ IF snap[t].initialized
               THEN /\ \A j \in 1..Len(es) : es[j] \in ToolsCallAttempt => j = 1
                    /\ \A i \in 1..Len(ms) : ms[i].method = "tools/call"
                    /\ Len(ms) <= 1
                    /\ pc[t] \in {"ct_send", "ct_recv", "idle"}
               ELSE /\ \A j \in 1..Len(es) :
                          es[j] \in ToolsCallAttempt =>
                              /\ j = 4
                              /\ SubSeq(es, 1, 2) = <<"write:initialize", "recv:initialize">>
                              /\ es[3] \in NotificationAttempt
                    /\ pc[t] \in {"ct_send", "ct_recv"} => initialized[cl[t]]
                    /\ (\E j \in 1..Len(es) : es[j] \in ToolsCallAttempt) => initialized[cl[t]]

\* a call_tool on a client not yet initialized that has written its three messages
C8_Witness ==
    \E t \in Tasks :
        /\ op[t] = "call_tool"
        /\ snap[t].streams /\ ~snap[t].initialized
        /\ Methods(WrittenSince(t)) = <<"initialize", "notifications/initialized", "tools/call">>
        /\ initialized[cl[t]]

\* C9: whenever the value a call has received last is an exception object, the call
\* has ended by raising that very object (initialize's discovery apart, whose
\* failures initialize swallows), and no decoding step was applied after the value
\* was received.
C9_ExceptionRaisedBeforeDecoding ==
    \A t \in Tasks :
        (received[t] # <<>> /\ Last(received[t]).t = "exc") =>
            /\ pc[t] = "idle"
            /\ ~(op[t] = "initialize" /\ Len(received[t]) = 2) =>
                   outcome[t] = Raised(Last(received[t]))
            /\ Last(events[t]) \notin {"decode:extract_jsonrpc", "decode:str", "decode:call_tool"}

\* C10: every wait for a reply ends, by a value received or by a timeout when none
\* comes: a task is never left at the receive of the handshake, of list_tools or of
\* call_tool for ever.
C10_EveryWaitEnds ==
    \A t \in Tasks : (pc[t] \in Receiving) ~> (pc[t] \notin Receiving)

\* ------------------------------------------------------------------------
\* Failures and the session
\* ------------------------------------------------------------------------

FailureEvents ==
    {"send_failed:initialize", "receive_failed:initialize",
     "send_failed:tools/list", "receive_failed:tools/list", "timeout:tools/list",
     "send_failed:tools/call", "receive_failed:tools/call"}

\* the list_tools or call_tool that task t runs (or ran last) has met a failure: a
\* send or a receive that raised, the time limit, or an exception object received
FailedCall(t) ==
    /\ op[t] \in {"list_tools", "call_tool"}
    /\ \/ \E j \in 1..Len(events[t]) : events[t][j] \in FailureEvents
       \/ received[t] # <<>> /\ Last(received[t]).t = "exc"

\* the handshake that call_tool runs for itself has received its reply
OwnHandshakeReplied(t) ==
    /\ op[t] = "call_tool"
    /\ Len(events[t]) >= 2
    /\ events[t][2] = "recv:initialize"
    /\ received[t][1].t # "exc"

\* every request that waits to be written carries an id above every id handed out
\* before it and above every id written
PendingIdsFresh ==
    \A t \in Tasks :
        pc[t] \in Sending =>
            LET c == cl[t] IN
            /\ req[t].id = Last(returned[c])
            /\ \A k \in 1..(Len(returned[c]) - 1) :
                   DecVal(returned[c][k]) < DecVal(req[t].id)
            /\ \A i \in 1..Len(IdsOf(outbound[c])) :
                   DecVal(IdsOf(outbound[c])[i]) < DecVal(req[t].id)

\* C11 as stated: a list_tools or call_tool that met a write failure, a receive
\* failure, the time limit or an exception reply has ended, initialized has the
\* value it had before that call and the streams are as before; and every request
\* stamped (so the next one too) carries a fresh id above every id used before.
C11_FailureKeepsSessionAsBefore ==
    /\ \A t \in Tasks :
           FailedCall(t) =>
               /\ pc[t] = "idle"
               /\ initialized[cl[t]] = snap[t].initialized
               /\ streams[cl[t]] = snap[t].streams
    /\ PendingIdsFresh

\* C11, amended: the failure itself leaves initialized alone. The flag has the value
\* it had before the call, or true when the handshake that call_tool runs for itself
\* had received its reply before the failure came; the streams are as before; every
\* request stamped carries a fresh id above every id used before.
C11_FailureLeavesSessionUsable ==
    /\ \A t \in Tasks :
           FailedCall(t) =>
               /\ pc[t] = "idle"
               /\ initialized[cl[t]] = (snap[t].initialized \/ OwnHandshakeReplied(t))
               /\ streams[cl[t]] = snap[t].streams
    /\ PendingIdsFresh

\* a tools/call request is stamped on an initialized session on which an earlier
\* request was given up at its time limit (it is still unanswered)
C11_Witness ==
    \E t \in Tasks :
        /\ pc[t] = "ct_send"
        /\ snap[t].initialized /\ initialized[cl[t]]
        /\ unanswered[cl[t]] # <<>>
        /\ DecVal(req[t].id) > DecVal(Last(unanswered[cl[t]]))

\* ------------------------------------------------------------------------
\* The decoders alone: call_tool's decoding (client.py 559-632),
\* parse_tool_response and get_text_value, applied to one value that was received
\* ------------------------------------------------------------------------

\* json.dumps of a value
RECURSIVE JsonText(_)
RECURSIVE JsonItems(_)
RECURSIVE JsonPairs(_)
JsonText(v) ==
    CASE v.t = "none" -> <<"null">>
      [] v.t = "bool" -> IF v.b THEN <<"true">> ELSE <<"false">>
      [] v.t = "num"  -> <<v.n>>
      [] v.t = "str"  -> <<DQ>> \o Escape(v.s, DQ) \o <<DQ>>
      [] v.t = "list" -> <<"[">> \o JsonItems(v.items) \o <<"]">>
      [] v.t = "dict" -> <<"{">> \o JsonPairs(v.kv) \o <<"}">>

JsonItems(items) ==
    IF items = <<>> THEN <<>>
    ELSE JsonText(Head(items))
         \o (IF Len(items) > 1 THEN <<",">> ELSE <<>>)
         \o JsonItems(Tail(items))

JsonPairs(kv) ==
    IF kv = <<>> THEN <<>>
    ELSE JsonText(Head(kv)[1]) \o <<":">> \o JsonText(Head(kv)[2])
         \o (IF Len(kv) > 1 THEN <<",">> ELSE <<>>)
         \o JsonPairs(Tail(kv))

\* texts of content items: a number in digits, words, a keyword of Python, a text
\* with an apostrophe
Texts == {<<"42">>, <<"hello", "world">>, <<"None">>, <<"it", SQ, "s">>}

Text(x) == TextContent(<<"text">>, x)

\* dictionary items: an image, a text item whose text is a number, a dictionary
\* with a text and no type
ImageItem == PyDict(<< <<KType, PyStr(<<"image">>)>>, <<PyStr(<<"data">>), PyStr(<<"AAAA">>)>> >>)
NumberItem == PyDict(<< <<KType, KText>>, <<KText, PyNum("42")>> >>)
BareTextItem == PyDict(<< <<KText, PyStr(<<"raw">>)>> >>)

Contents ==
    {<<>>} \cup {<<Text(x)>> : x \in Texts}
    \cup { <<Text(<<"42">>), Text(<<"hello", "world">>)>>,
           <<ImageItem, Text(<<"42">>)>>,
           <<ImageItem>>, <<NumberItem>>, <<BareTextItem>> }

\* isError and message: a success, a failure without and with a message
Verdicts == { <<FALSE, PyNone>>, <<TRUE, PyNone>>, <<TRUE, PyStr(<<"boom">>)>> }

ToolResults == {ToolCallResult(c, e[1], e[2]) : c \in Contents, e \in Verdicts}

ReplyId == <<"1">>

Shapes == {"native", "native_root", "native_dict", "message", "root_py", "root_json", "json"}

RootPrefix ==
    <<"root=", "JSONRPCResponse", "(", "jsonrpc=", SQ, "2.0", SQ, ",", "id=">>
    \o ReprStr(ReplyId) \o <<",", "result=">>

\* a tool result as it may reach call_tool or parse_tool_response:
\*   native       a JsonRpcResponse whose result is the ToolCallResult
\*   native_root  the same, dumped by str() as root=JSONRPCResponse(...)
\*   native_dict  a JsonRpcResponse whose result is a dictionary
\*   message      the JSONRPCMessage of the mcp library
\*   root_py      str() of that message: the result as a Python literal
\*   root_json    the same dump with the result as JSON text
\*   json         the whole reply as JSON text
Encode(r, shape) ==
    CASE shape = "native" -> JsonRpcResponse(ReplyId, r, "model")
      [] shape = "native_root" -> JsonRpcResponse(ReplyId, r, "root")
      [] shape = "native_dict" -> JsonRpcResponse(ReplyId, ResultDict(r), "model")
      [] shape = "message" -> MsgResponse(ReplyId, ResultDict(r))
      [] shape = "root_py" -> PyStr(Str(MsgResponse(ReplyId, ResultDict(r))))
      [] shape = "root_json" -> PyStr(RootPrefix \o JsonText(ResultDict(r)) \o <<")">>)
      [] OTHER -> PyStr(JsonText(PyDict(<< <<PyStr(<<"jsonrpc">>), PyStr(<<"2.0">>)>>,
                                           <<PyStr(<<"id">>), PyStr(ReplyId)>>,
                                           <<KResult, ResultDict(r)>> >>)))

\* a text with a labeled text field and nothing that parses
LabeledText == <<"tool", "said", SQ, "text", SQ, ":", SQ, "hello", "world", SQ, "and", "more">>

\* replies that carry no tool result
OtherReplies ==
    { PyStr(<<"hello">>), PyStr(<<>>), PyStr(<<"42">>), PyStr(<<"[", "1", "]">>),
      PyStr(LabeledText),
      PyStr(<<"root=", "Dump", "(", "result=", "{", "broken">> \o LabeledText \o <<"}", ")">>),
      PyStr(<<"{", DQ, "result", DQ, ":", "1", "}">>),
      PyStr(<<"{", DQ, "result", DQ, ":", "{", DQ, "content", DQ, ":", "[", "1", "]", "}", "}">>),
      UnparsableReply(ReplyId),
      MsgError(ReplyId),
      JsonRpcResponse(ReplyId, PyNone, "model") }

DecodeInputs == {Encode(r, shape) : r \in ToolResults, shape \in Shapes} \cup OtherReplies

\* one value has been received by a caller on a session that is set up
InitDecode ==
    /\ InitClients
    /\ transport = [c \in Clients |-> FALSE]
    /\ op = [t \in Tasks |-> "none"]
    /\ call = [t \in Tasks |-> NoCall]
    /\ req = [t \in Tasks |-> NoMessage]
    /\ received = [t \in Tasks |-> <<>>]
    /\ init_response = [t \in Tasks |-> PyNone]
    /\ outcome = [t \in Tasks |-> NoOutcome]
    /\ events = [t \in Tasks |-> <<>>]
    /\ snap = [t \in Tasks |-> Snapshot(1)]
    /\ parsed = NotApplied
    /\ text_value = NotApplied
    /\ extracted = NotApplied
    /\ InitServer
    /\ cl = [t \in Tasks |-> 1]
    /\ pc = [t \in Tasks |-> IF t = 1 THEN "reply" ELSE "off"]
    /\ \E v \in DecodeInputs : response = [t \in Tasks |-> IF t = 1 THEN v ELSE PyNone]

\* call_tool decodes the reply it received and returns (client.py 559-632)
DecodeReply(t) ==
    /\ pc[t] = "reply"
    /\ pc' = [pc EXCEPT ![t] = "returned"]
    /\ outcome' = [outcome EXCEPT ![t] = CallToolDecode(response[t])]
    /\ Log(t, <<"decode:call_tool">>)
    /\ UNCHANGED <<clientVars, outbound, inbound, unanswered, cl, extracted, serverVars, parsed, text_value, op, call,
                   req, response, received, init_response, snap>>

\* value, is_error, error_message = parse_tool_response(raw_response), for the
\* raw_response that call_tool returned (client.py 820-823)
ParseReturned(t) ==
    /\ pc[t] = "returned"
    /\ outcome[t].kind = "return"
    /\ pc' = [pc EXCEPT ![t] = "parsed"]
    /\ parsed' = [kind |-> "return", arg |-> outcome[t].val,
                  out |-> parse_tool_response(outcome[t].val)]
    /\ UNCHANGED <<clientVars, outbound, inbound, unanswered, cl, extracted, serverVars, text_value, op, call, req,
                   response, received, init_response, outcome, events, snap>>

\* parse_tool_response applied to the reply itself
ParseReply(t) ==
    /\ pc[t] = "reply"
    /\ pc' = [pc EXCEPT ![t] = "parsed"]
    /\ parsed' = [kind |-> "return", arg |-> response[t],
                  out |-> parse_tool_response(response[t])]
    /\ UNCHANGED <<clientVars, outbound, inbound, unanswered, cl, extracted, serverVars, text_value, op, call, req,
                   response, received, init_response, outcome, events, snap>>

\* result.get_text_value(), for a reply whose result is a ToolCallResult
GetTextValue(t) ==
    /\ pc[t] = "reply"
    /\ response[t].t = "resp"
    /\ response[t].result.t = "tcr"
    /\ pc' = [pc EXCEPT ![t] = "text"]
    /\ text_value' = [kind |-> "return", self |-> response[t].result,
                      val |-> get_text_value(response[t].result)]
    /\ UNCHANGED <<clientVars, outbound, inbound, unanswered, cl, extracted, serverVars, parsed, op, call, req,
                   response, received, init_response, outcome, events, snap>>

NextDecode ==
    \E t \in Tasks : DecodeReply(t) \/ ParseReturned(t) \/ ParseReply(t) \/ GetTextValue(t)

SpecDecode == InitDecode /\ [][NextDecode]_vars

\* ------------------------------------------------------------------------
\* What the decoders give
\* ------------------------------------------------------------------------

\* the text a content item carries, None when it carries none
ItemText(it) ==
    IF it.t = "tc" THEN PyStr(it.text)
    ELSE IF it.t = "dict" /\ HasKey(it, KText) THEN GetKey(it, KText)
    ELSE PyNone

TextsOf(items) == [i \in 1..Len(items) |-> ItemText(items[i])]

\* the text of the first content item of a tool result, None when there is none
FirstText(r) == IF r.content = <<>> THEN PyNone ELSE ItemText(r.content[1])

\* call_tool has decoded the reply that task t received
Decoded(t) == pc[t] \in {"returned", "parsed"} /\ outcome[t] # NoOutcome

\* parse_tool_response has been applied to the reply itself
ParsedReply(t) == pc[t] = "parsed" /\ parsed.kind = "return" /\ parsed.arg = response[t]

\* parse_tool_response has been applied to what call_tool returned for the reply
ParsedReturned(t) ==
    /\ pc[t] = "parsed" /\ parsed.kind = "return"
    /\ outcome[t].kind = "return" /\ parsed.arg = outcome[t].val

\* C12: decoding never raises: for every received value that is no exception object
\* call_tool returns a value, and parse_tool_response returns a triple.
C12_DecodingNeverRaises ==
    /\ \A t \in Tasks : Decoded(t) => outcome[t].kind = "return"
    /\ parsed.kind = "return" => parsed.out.kind = "return"

\* C13: for a reply that is an object with result.content, what the whole chain of
\* call_tool returns is what the native stage returns for it.
C13_NativeReplyDecodedNatively ==
    \A t \in Tasks :
        (Decoded(t) /\ response[t].t = "resp" /\ response[t].result.t = "tcr") =>
            outcome[t] = NativeStage(response[t]).out

RoundTripShapes == {"native", "root_py", "root_json"}

\* C14: a tool result encoded as a native object, as a root= string in Python
\* literal style or as a root= string in JSON style decodes to the same content
\* texts and the same error flag: extract_jsonrpc gives a result with these texts
\* and this flag for the two strings, and parse_tool_response gives the flag, and
\* the first text for a result that is no error.
C14_RoundTrip ==
    \A t \in Tasks : \A r \in ToolResults : \A shape \in RoundTripShapes :
        (ParsedReply(t) /\ response[t] = Encode(r, shape)) =>
            /\ shape # "native" =>
                   LET decoded == extract_jsonrpc(response[t], <<>>) IN
                   /\ decoded.t = "dict"
                   /\ HasKey(decoded, KContent)
                   /\ GetKey(decoded, KContent).t = "list"
                   /\ TextsOf(GetKey(decoded, KContent).items) = TextsOf(r.content)
                   /\ Truthy(GetOr(decoded, KIsError, PyBool(FALSE))) = r.isError
            /\ parsed.out.is_error = r.isError
            /\ ~r.isError => parsed.out.value = FirstText(r)

\* C15: get_text_value returns (it never raises) the text of the first content item
\* when that is a TextContent, the 'text' entry of the first item when that is a
\* dictionary with a 'text' key, None otherwise; a result with the same first item
\* and other items after it gives the same value.
C15_GetTextValueReadsFirstItem ==
    text_value.kind # "none" =>
        LET self == text_value.self IN
        /\ text_value.kind = "return"
        /\ text_value.val =
               (IF self.content = <<>> THEN PyNone
                ELSE IF self.content[1].t = "tc" THEN PyStr(self.content[1].text)
                ELSE IF self.content[1].t = "dict" /\ HasKey(self.content[1], KText)
                THEN GetKey(self.content[1], KText)
                ELSE PyNone)
        /\ \A r \in ToolResults :
               (r.content # <<>> /\ self.content # <<>> /\ r.content[1] = self.content[1])
               => get_text_value(r) = text_value.val

\* get_text_value was applied to a result whose first item has no text and whose
\* second item has one
C15_Witness ==
    /\ text_value.kind = "return"
    /\ Len(text_value.self.content) = 2
    /\ ItemText(text_value.self.content[1]) = PyNone
    /\ ItemText(text_value.self.content[2]) # PyNone
    /\ text_value.val = PyNone

\* C16: a reply whose result has an empty content list and isError false is decoded
\* with success and the caller can tell it from a reply that was not recognized:
\* parse_tool_response does not give it the (None, False, None) of line 760, and
\* call_tool does not return the reply itself as it does when it gives up.
C16_EmptyContentIsRecognized ==
    \A t \in Tasks : \A r \in ToolResults : \A shape \in Shapes :
        (r.content = <<>> /\ ~r.isError /\ response[t] = Encode(r, shape)) =>
            /\ ParsedReply(t) => parsed.out.is_error = FALSE /\ parsed.out # NoValue
            /\ Decoded(t) => outcome[t].kind = "return" /\ outcome[t].val # response[t]

\* C17: when the reply carries a result with isError true, the caller that runs
\* call_tool and then parse_tool_response on what it returned gets is_error true,
\* with the result's message as error_message, or the first content item's text
\* when there is no message; call_tool has not raised.
C17_ToolErrorReachesCaller ==
    \A t \in Tasks : \A r \in ToolResults : \A shape \in Shapes :
        (r.isError /\ response[t] = Encode(r, shape)) =>
            /\ Decoded(t) => outcome[t].kind = "return"
            /\ ParsedReturned(t) =>
                   /\ parsed.out.is_error = TRUE
                   /\ parsed.out.error_message =
                          (IF r.message # PyNone THEN r.message ELSE FirstText(r))

\* a string from which nothing parses but in which 'text': '<value>' is found
Unstructured(v) ==
    /\ v.t = "str"
    /\ extract_jsonrpc(v, <<>>) = PyNone
    /\ ~Parse(v.s, "json").ok
    /\ TextMatch(v.s).found

\* C18: a string reply with no parseable structure and a labeled text field is
\* decoded to that text with the error flag false, by call_tool and by
\* parse_tool_response alike.
C18_LabeledTextRecovered ==
    \A t \in Tasks :
        Unstructured(response[t]) =>
            LET text == PyStr(TextMatch(response[t].s).group) IN
            /\ Decoded(t) => outcome[t] = Returned(text)
            /\ ParsedReply(t) => parsed.out = Triple(text, FALSE, PyNone)

\* C19: for every wire shape of a tool result, call_tool returns the text of the
\* first content item when that item carries one, and the received value itself
\* when it carries none.
C19_CallToolReturnsFirstText ==
    \A t \in Tasks : \A r \in ToolResults : \A shape \in Shapes :
        (Decoded(t) /\ response[t] = Encode(r, shape)) =>
            outcome[t] = (IF FirstText(r) # PyNone THEN Returned(FirstText(r))
                          ELSE Returned(response[t]))

\* ------------------------------------------------------------------------
\* Two coroutines on one Client: the caller has set client.streams (client.py
\* 998-999) and starts list_tools and call_tool calls from two tasks, for
\* instance with asyncio.gather. A task runs until its next await; the other task
\* may run then.
\* ------------------------------------------------------------------------

\* what the peer answers in this setting
ConcurrentReplies(id) ==
    {MsgResponse(id, ContentResult), MsgResponse(id, ToolsResult(<<ToolRandom>>))}

InitConcurrent ==
    /\ InitClients
    /\ transport = [c \in Clients |-> FALSE]
    /\ InitTasks
    /\ InitServer
    /\ cl = [t \in Tasks |-> 1]
    /\ pc = [t \in Tasks |-> "idle"]

PeerAnswers(c) ==
    /\ unanswered[c] # <<>>
    /\ \E v \in ConcurrentReplies(Head(unanswered[c])) : PeerReply(c, v)

NextConcurrent ==
    \/ \E t \in Tasks : ListTools(t)
    \/ \E t \in Tasks : \E input \in CallInputs : CallTool(t, input)
    \/ \E t \in Tasks : TaskStep(t)
    \/ \E c \in Clients : AttachStreams(c)
    \/ \E c \in Clients : PeerAnswers(c)

SpecConcurrent == InitConcurrent /\ [][NextConcurrent]_vars

\* C20: on one session at most one request awaits its reply at any moment, also
\* when two operations run concurrently on the same Client: no two tasks are at
\* the receive of a request they have written.
C20_OneRequestAwaitsReply ==
    \A c \in Clients : Cardinality({t \in Tasks : cl[t] = c /\ pc[t] \in Receiving}) <= 1

\* ------------------------------------------------------------------------
\* Two Clients: each task has built its own Client (client.py 243-248) and calls
\* the methods of that Client alone.
\* ------------------------------------------------------------------------

\* what the peers answer in this setting
TwoClientReplies(id) ==
    {MsgResponse(id, ToolsResult(<<ToolRandom>>))}

InitTwoClients ==
    /\ InitClients
    /\ transport = [c \in Clients |-> TRUE]
    /\ InitTasks
    /\ InitServer
    /\ cl = [t \in Tasks |-> t]
    /\ pc = [t \in Tasks |-> "idle"]

PeerAnswersClient(c) ==
    /\ unanswered[c] # <<>>
    /\ \E v \in TwoClientReplies(Head(unanswered[c])) : PeerReply(c, v)

NextTwoClients ==
    \/ \E t \in Tasks : Initialize(t)
    \/ \E t \in Tasks : ListTools(t)
    \/ \E t \in Tasks : CallTool(t, NoCall)
    \/ \E t \in Tasks : TaskStep(t)
    \/ \E c \in Clients : AttachStreams(c)
    \/ \E c \in Clients : PeerAnswersClient(c)

SpecTwoClients == InitTwoClients /\ [][NextTwoClients]_vars

\* the attributes of one Client
ClientState(c) ==
    <<transport[c], streams[c], request_id[c], initialized[c], available_tools[c]>>

\* what a task holds while it runs a method
TaskState(t) ==
    <<pc[t], op[t], call[t], req[t], response[t], received[t], init_response[t],
      outcome[t], events[t], snap[t]>>

\* C21: two Client instances share no mutable state: a step of a method that runs
\* on one Client leaves the request-id counter, the initialized flag, the streams
\* and available_tools of every other Client unchanged.
C21_ClientsShareNothing ==
    [][\A t \in Tasks : \A c \in Clients :
          (TaskState(t)' # TaskState(t) /\ c # cl[t]) => ClientState(c)' = ClientState(c)]_vars

\* both Clients have been worked on and have come to differ in every attribute
C21_Witness ==
    /\ cl[1] # cl[2]
    /\ request_id[1] > request_id[2] /\ request_id[2] > 0
    /\ initialized[1] /\ ~initialized[2]
    /\ available_tools[1] # NoTools /\ available_tools[2] = NoTools
    /\ streams[1] /\ streams[2]
    /\ pc[2] = "hs_recv"

\* ------------------------------------------------------------------------
\* The initialized notification
\* ------------------------------------------------------------------------

RequestAttempts ==
    {"write:initialize", "send_failed:initialize"} \cup ToolsListAttempt \cup ToolsCallAttempt

\* the events of a read of the inbound stream, each with the write it follows
ReadOf ==
    [e \in {"recv:initialize", "receive_failed:initialize", "recv:tools/list",
            "receive_failed:tools/list", "timeout:tools/list", "recv:tools/call",
            "receive_failed:tools/call"} |->
        CASE e \in {"recv:initialize", "receive_failed:initialize"} -> "write:initialize"
          [] e \in {"recv:tools/call", "receive_failed:tools/call"} -> "write:tools/call"
          [] OTHER -> "write:tools/list"]

\* how many of the events es are in the set S
CountIn(es, S) == Cardinality({i \in 1..Len(es) : es[i] \in S})

\* C22: the initialized notification is written without an id; it does not advance
\* the request-id counter (the counter has advanced once for each request the call
\* has stamped, the notification not counted); and no read of the inbound stream is
\* made on its behalf: every read follows at once the write of a request, and what
\* follows the notification is the next write or the end of the call.
C22_NotificationIsNoRequest ==
    \A t \in Tasks :
        LET c == cl[t]
            es == events[t]
        IN
        /\ \A i \in 1..Len(outbound[c]) :
               outbound[c][i].method = "notifications/initialized" =>
                   DOMAIN outbound[c][i] = {"method"}
        /\ pc[t] = "notif_send" =>
               req[t].method = "notifications/initialized" /\ DOMAIN req[t] = {"method"}
        /\ pc[t] # "off" =>
               request_id[c] - snap[t].request_id =
                   CountIn(es, RequestAttempts) + (IF pc[t] \in Sending THEN 1 ELSE 0)
        /\ \A i \in 1..Len(es) :
               /\ es[i] \in DOMAIN ReadOf => i > 1 /\ es[i - 1] = ReadOf[es[i]]
               /\ (es[i] \in NotificationAttempt /\ i < Len(es)) =>
                      es[i + 1] \in ToolsListAttempt \cup ToolsCallAttempt
        /\ (es # <<>> /\ Last(es) \in NotificationAttempt) => pc[t] \in Sending \cup {"idle"}

\* call_tool has run its handshake, has written the notification and has stamped
\* its tools/call request: two ids were taken, three messages are written or due
C22_Witness ==
    \E t \in Tasks :
        /\ op[t] = "call_tool" /\ pc[t] = "ct_send"
        /\ events[t] = <<"write:initialize", "recv:initialize", "write:notifications/initialized">>
        /\ Methods(WrittenSince(t)) = <<"initialize", "notifications/initialized">>
        /\ request_id[cl[t]] = snap[t].request_id + 2

\* ------------------------------------------------------------------------
\* The server's tool dispatcher alone: fetch_tool applied to one tools/call
\* ------------------------------------------------------------------------

\* the tool names of the calls: the six commands and two names that are none
ToolNames == Command \cup {"fetch_website", ""}

\* the arguments maps of the calls
ArgumentMaps ==
    { PyDict(<<>>),
      PyDict(<< <<PyStr(<<"schema_name">>), PyStr(<<"public">>)>> >>),
      PyDict(<< <<PyStr(<<"schema_name">>), PyStr(<<>>)>> >>),
      PyDict(<< <<PyStr(<<"schema_name">>), PyNone>> >>),
      PyDict(<< <<PyStr(<<"query">>), PyStr(<<"SELECT", "1">>)>> >>),
      PyDict(<< <<PyStr(<<"query">>), PyStr(<<>>)>> >>),
      PyDict(<< <<PyStr(<<"schema_name">>), PyStr(<<"public">>)>>,
                <<PyStr(<<"query">>), PyStr(<<"SELECT", "1">>)>> >>) }

InitFetch ==
    /\ InitClients
    /\ transport = [c \in Clients |-> FALSE]
    /\ InitTasks
    /\ cl = [t \in Tasks |-> 1]
    /\ pc = [t \in Tasks |-> "off"]
    /\ InitWrapper
    /\ coro = [k \in Coros |-> [pc |-> "idle", calls |-> 0, outcome |-> "none"]]
    /\ body_runs = [begun |-> 0, completed |-> 0]
    /\ \E name \in ToolNames : \E arguments \in ArgumentMaps : \E handler \in HandlerOutcomes :
          fetch = [kind |-> "call", name |-> name, arguments |-> arguments, handler |-> handler]

\* the server awaits fetch_tool(name, arguments) (server.py 1103-1157)
FetchTool ==
    /\ fetch.kind = "call"
    /\ LET r == fetch_tool(fetch.name, fetch.arguments, fetch.handler) IN
       fetch' = [fetch EXCEPT !.kind = "done"] @@ [out |-> r.out, invoked |-> r.invoked]
    /\ UNCHANGED <<clientVars, outbound, inbound, unanswered, cl, extracted, taskVars, parsed,
                   text_value, wrapper, coro, body_runs>>

NextFetch == FetchTool

SpecFetch == InitFetch /\ [][NextFetch]_vars

\* the parameter k is missing from the arguments, or is there with an empty value
MissingOrEmpty(arguments, k) ==
    \/ ~HasKey(arguments, PyStr(<<k>>))
    \/ GetKey(arguments, PyStr(<<k>>)) \in {PyNone, PyStr(<<>>)}

\* C23: fetch_tool is total: for every tool name and every arguments map, a handler
\* that raises included, it returns (no exception leaves it) a non-empty list whose
\* items are all text content; an unknown name gives the one text
\* 'Unknown tool: <name>'; a required parameter that is missing or empty gives an
\* error text; and in both cases the tool handler is not awaited.
C23_DispatcherIsTotal ==
    fetch.kind = "done" =>
        /\ fetch.out.kind = "return"
        /\ Len(fetch.out.val) >= 1
        /\ \A i \in 1..Len(fetch.out.val) :
               fetch.out.val[i].t = "tc" /\ fetch.out.val[i].type = <<"text">>
        /\ fetch.name \notin Command =>
               /\ fetch.out.val = <<TextContent(<<"text">>, <<"Unknown", "tool:", fetch.name>>)>>
               /\ ~fetch.invoked
        /\ (fetch.name \in Command /\ RequiredParameter(fetch.name) # ""
            /\ MissingOrEmpty(fetch.arguments, RequiredParameter(fetch.name))) =>
               /\ Len(fetch.out.val) = 1
               /\ SubSeq(fetch.out.val[1].text, 1, 4) = <<"Error:", "Missing", "required", "parameter">>
               /\ ~fetch.invoked
        /\ (fetch.name \in Command /\ fetch.invoked /\ fetch.handler.kind = "return") =>
               fetch.out = fetch.handler

\* mysql_query_select was called with an empty query while its handler would have
\* raised: the error text came back and the handler was not awaited
C23_Witness ==
    /\ fetch.kind = "done"
    /\ fetch.name = "mysql_query_select"
    /\ fetch.arguments = PyDict(<< <<PyStr(<<"query">>), PyStr(<<>>)>> >>)
    /\ fetch.handler.kind = "raise"
    /\ ~fetch.invoked
    /\ fetch.out.val[1].text[1] = "Error:"

\* ------------------------------------------------------------------------
\* Replies and the requests they are taken for
\* ------------------------------------------------------------------------

\* the id of the request the running (or last) call of task t wrote last
LastIdWritten(t) == Last(IdsOf(WrittenSince(t)))

\* C24: the reply accepted for a request is the next value received on the inbound
\* stream, whatever id it carries: when call_tool or list_tools takes a value that
\* is no exception from the stream, it takes the head of the stream, and call_tool
\* returns what the decoding of that value gives and list_tools stores the tools
\* found in it and returns it, with no regard to the id of the request written.
C24_ReplyTakenWhateverItsId ==
    [][\A t \in Tasks :
          LET v == Head(inbound[cl[t]]) IN
          (pc[t] \in {"ct_recv", "lt_recv"} /\ pc'[t] # pc[t]
           /\ inbound[cl[t]] # <<>> /\ inbound'[cl[t]] # inbound[cl[t]]
           /\ v.t \notin {"raise", "exc"}) =>
              /\ inbound'[cl[t]] = Tail(inbound[cl[t]])
              /\ response'[t] = v
              /\ pc[t] = "ct_recv" => outcome'[t] = CallToolDecode(v)
              /\ pc[t] = "lt_recv" =>
                     /\ available_tools'[cl[t]] = ParseToolsList(v)
                     /\ (op[t] = "list_tools" => outcome'[t] = Returned(v))]_vars

\* list_tools gave up its wait, the reply to its request came while call_tool
\* awaited its own, and call_tool returned the text decoded from that reply
C24_Witness ==
    \E t \in Tasks :
        /\ op[t] = "call_tool" /\ pc[t] = "idle"
        /\ events[t] = <<"write:tools/call", "recv:tools/call", "decode:call_tool">>
        /\ response[t].t = "msg"
        /\ response[t].id # LastIdWritten(t)
        /\ outcome[t] = CallToolDecode(response[t])
        /\ outcome[t] = Returned(PyStr(<<"42">>))

\* ------------------------------------------------------------------------
\* The handshake comes first
\* ------------------------------------------------------------------------

ToolMethods == {"tools/list", "tools/call"}

\* the positions on the outbound stream of Client c that hold this method
WritesOf(c, method) == {i \in 1..Len(outbound[c]) : outbound[c][i].method = method}

\* no tools request is written or due on a Client that is not initialized, and an
\* initialize request was written before each
ToolsOnlyWhenInitialized ==
    /\ \A c \in Clients : \A i \in 1..Len(outbound[c]) :
           outbound[c][i].method \in ToolMethods =>
               /\ initialized[c]
               /\ \E j \in WritesOf(c, "initialize") : j < i
    /\ \A t \in Tasks :
           (pc[t] \in Sending /\ req[t].method \in ToolMethods) => initialized[cl[t]]

\* a list_tools that is called on a Client that is not initialized raises
\* RuntimeError in that very step, and the streams and the counter are as before
ListToolsRefused ==
    \A t \in Tasks :
        (pc[t] = "idle" /\ TaskState(t)' # TaskState(t) /\ op'[t] = "list_tools"
         /\ ~initialized[cl[t]]) =>
            /\ pc'[t] = "idle"
            /\ outcome'[t] = Raised(RuntimeError)
            /\ events'[t] = <<>>
            /\ UNCHANGED <<outbound, inbound, unanswered, clientVars>>

\* initialized becomes true only in the step in which a handshake that has written
\* its initialize request receives a value that is no exception
InitializedByReply ==
    \A c \in Clients :
        (initialized'[c] /\ ~initialized[c]) =>
            \E t \in Tasks :
                /\ cl[t] = c /\ pc[t] = "hs_recv"
                /\ Last(Methods(WrittenSince(t))) = "initialize"
                /\ inbound[c] # <<>> /\ inbound'[c] = Tail(inbound[c])
                /\ Head(inbound[c]).t \notin {"raise", "exc"}

\* C25: in any session no tools/list and no tools/call request is written before
\* an initialize request has been written and a reply to it that is no exception
\* has been received; list_tools called while initialized is false raises
\* RuntimeError and writes nothing.
C25_NoToolsBeforeHandshake ==
    []ToolsOnlyWhenInitialized /\ [][InitializedByReply /\ ListToolsRefused]_vars

\* a first handshake was answered by an exception object and nothing followed it;
\* the second was answered and the tools/list request was written after it
C25_Witness ==
    \E c \in Clients :
        /\ Methods(outbound[c]) =
               <<"initialize", "initialize", "notifications/initialized", "tools/list">>
        /\ initialized[c]

\* ------------------------------------------------------------------------
\* A Client without streams
\* ------------------------------------------------------------------------

\* C26: when the Client has no streams (initialize has no transport to take them
\* from), the handshake, list_tools and call_tool raise RuntimeError in the step
\* in which they are called: nothing is written, nothing is read, and the
\* request-id counter, the initialized flag and available_tools are as before.
C26_NoStreamsRaises ==
    [][\A t \in Tasks :
          (pc[t] = "idle" /\ TaskState(t)' # TaskState(t) /\ ~streams'[cl[t]]) =>
              /\ op'[t] \in {"initialize", "list_tools", "call_tool"}
              /\ pc'[t] = "idle"
              /\ outcome'[t] = Raised(RuntimeError)
              /\ events'[t] = <<>>
              /\ UNCHANGED <<outbound, inbound, unanswered, request_id, returned,
                             initialized, available_tools>>]_vars

\* call_tool was called on a Client that has a transport but no streams yet
C26_Witness ==
    \E t \in Tasks :
        /\ op[t] = "call_tool" /\ pc[t] = "idle"
        /\ transport[cl[t]] /\ ~streams[cl[t]]
        /\ outcome[t] = Raised(RuntimeError)
        /\ outbound[cl[t]] = <<>> /\ request_id[cl[t]] = 0

\* ------------------------------------------------------------------------
\* list_tools without a reply
\* ------------------------------------------------------------------------

\* the list_tools that task t runs (called directly or by initialize) has ended
\* without a reply it could use: its send failed, its wait timed out, its receive
\* raised, or the value received was an exception object
ListToolsFailed(t) ==
    /\ pc[t] = "idle"
    /\ events[t] # <<>>
    /\ \/ Last(events[t]) \in {"send_failed:tools/list", "timeout:tools/list",
                               "receive_failed:tools/list"}
       \/ /\ "recv:tools/list" \in {events[t][i] : i \in 1..Len(events[t])}
          /\ IsException(Last(received[t]))

\* a failed list_tools has returned None and available_tools is what it was when
\* the call began
FailedListToolsKeepsTools ==
    \A t \in Tasks :
        ListToolsFailed(t) =>
            /\ available_tools[cl[t]] = snap[t].available_tools
            /\ op[t] = "list_tools" => outcome[t] = Returned(PyNone)

\* available_tools changes only in the step in which list_tools receives a value
\* that is no exception, and it becomes the tool list found in that value
ToolsReplacedByReply ==
    \A c \in Clients :
        available_tools'[c] # available_tools[c] =>
            \E t \in Tasks :
                /\ cl[t] = c /\ pc[t] = "lt_recv"
                /\ inbound[c] # <<>>
                /\ Head(inbound[c]).t \notin {"raise", "exc"}
                /\ available_tools'[c] = ParseToolsList(Head(inbound[c]))

\* C27: when list_tools ends without a usable reply value (write failure, timeout,
\* receive failure, or an exception object received) it returns None and
\* available_tools keeps the contents it had before the call; available_tools is
\* cleared or replaced only after a reply that is no exception has been received.
C27_FailedDiscoveryKeepsTools ==
    []FailedListToolsKeepsTools /\ [][ToolsReplacedByReply]_vars

\* tools had been discovered, and a later list_tools received an exception object:
\* it returned None and the tools are still there
C27_Witness ==
    \E t \in Tasks :
        /\ op[t] = "list_tools" /\ ListToolsFailed(t)
        /\ received[t] # <<>> /\ IsException(Last(received[t]))
        /\ snap[t].available_tools # NoTools
        /\ available_tools[cl[t]] = snap[t].available_tools
        /\ outcome[t] = Returned(PyNone)

\* ------------------------------------------------------------------------
\* The notification that could not be written
\* ------------------------------------------------------------------------

NotificationFailed == "send_failed:notifications/initialized"

\* C28: a failure to write the initialized notification is swallowed: initialized
\* is true when the notification is attempted and stays true; after the failure
\* Client.initialize goes on to its tools/list request, call_tool to its tools/call
\* request, and initialize_with_streams returns; no call ends by raising it.
C28_NotificationFailureSwallowed ==
    \A t \in Tasks :
        LET es == events[t] IN
        /\ pc[t] = "notif_send" => initialized[cl[t]]
        /\ \A i \in 1..Len(es) :
               es[i] = NotificationFailed =>
                   /\ initialized[cl[t]]
                   /\ i > 1 /\ es[i - 1] = "recv:initialize"
                   /\ op[t] = "initialize" =>
                          IF i = Len(es) THEN pc[t] = "lt_send" /\ req[t].method = "tools/list"
                          ELSE es[i + 1] \in ToolsListAttempt
                   /\ op[t] = "call_tool" =>
                          IF i = Len(es)
                          THEN /\ pc[t] = "ct_send" /\ req[t].method = "tools/call"
                               /\ req[t].params = ToolCallParams(call[t].name, call[t].arguments)
                          ELSE es[i + 1] \in ToolsCallAttempt
                   /\ op[t] = "initialize_with_streams" =>
                          i = Len(es) /\ pc[t] = "idle" /\ outcome[t] = Returned(PyNone)

\* call_tool ran its handshake, the notification could not be written, and the
\* tools/call request was written all the same
C28_Witness ==
    \E t \in Tasks :
        /\ op[t] = "call_tool"
        /\ events[t] = <<"write:initialize", "recv:initialize", NotificationFailed,
                         "write:tools/call">>
        /\ Methods(WrittenSince(t)) = <<"initialize", "tools/call">>
        /\ initialized[cl[t]]

\* ------------------------------------------------------------------------
\* extract_jsonrpc alone, applied to one value and one field name
\* ------------------------------------------------------------------------

\* a root= reply whose result holds the fragment of tokens given
RootReply(fragment) ==
    PyStr(RootPrefix \o fragment \o <<")">>)

\* lists nested n deep
RECURSIVE Nested(_)
Nested(n) == IF n = 0 THEN <<>> ELSE <<"[">> \o Nested(n - 1) \o <<"]">>

\* result fragments beyond those of the tool results: one that only the literal
\* parser accepts (a number for a key, a trailing comma), one that no parser
\* accepts, and lists nested up to the limit, beyond it, and beyond it behind a key
\* that json.loads rejects first
ExtractFragments ==
    { <<"{", "1", ":", SQ, "a", SQ, "}">>,
      <<"{", SQ, "tools", SQ, ":", "[", "1", ",", "]", "}">>,
      <<"{", SQ, "tools", SQ, ":", "[", "Tool", "(", ")", "]", "}">>,
      <<"{", SQ, "content", SQ, ":">> \o Nested(RecursionLimit - 1) \o <<"}">>,
      <<"{", SQ, "content", SQ, ":">> \o Nested(RecursionLimit) \o <<"}">>,
      <<"{", "1", ":">> \o Nested(RecursionLimit) \o <<"}">> }

\* the values extract_jsonrpc is applied to
ExtractInputs ==
    {v \in DecodeInputs : v.t = "str"}
    \cup {RootReply(f) : f \in ExtractFragments}
    \cup {PyNone, PyStr(<<>>), PyNum("42"), MsgResponse(ReplyId, ContentResult),
          PyStr(Str(MsgError(ReplyId))), PyStr(Str(MsgResponse(ReplyId, ToolsResult(<<ToolRandom>>))))}

\* the field names it is asked for; <<>> stands for None
ExtractFields == {<<>>, <<"tools">>, <<"content">>}

InitExtract ==
    /\ InitClients
    /\ transport = [c \in Clients |-> FALSE]
    /\ op = [t \in Tasks |-> "none"]
    /\ call = [t \in Tasks |-> NoCall]
    /\ req = [t \in Tasks |-> NoMessage]
    /\ response = [t \in Tasks |-> PyNone]
    /\ received = [t \in Tasks |-> <<>>]
    /\ init_response = [t \in Tasks |-> PyNone]
    /\ outcome = [t \in Tasks |-> NoOutcome]
    /\ events = [t \in Tasks |-> <<>>]
    /\ snap = [t \in Tasks |-> Snapshot(1)]
    /\ parsed = NotApplied
    /\ text_value = NotApplied
    /\ InitServer
    /\ cl = [t \in Tasks |-> 1]
    /\ pc = [t \in Tasks |-> "off"]
    /\ \E input \in ExtractInputs : \E field \in ExtractFields :
          extracted = [kind |-> "call", input |-> input, field |-> field]

\* extract_jsonrpc(input_str, field_name) is called (client.py 41-110)
ExtractJsonrpc ==
    /\ extracted.kind = "call"
    /\ extracted' = [kind |-> "done", input |-> extracted.input, field |-> extracted.field,
                     out |-> extract_jsonrpc(extracted.input, extracted.field)]
    /\ UNCHANGED <<clientVars, outbound, inbound, unanswered, cl, taskVars, parsed, text_value,
                   serverVars>>

NextExtract == ExtractJsonrpc

SpecExtract == InitExtract /\ [][NextExtract]_vars

\* the result fragment extract_jsonrpc works on
FragmentOf(input) ==
    IF FullResultMatch(input.s).found THEN FullResultMatch(input.s).group
    ELSE ResultMatch(input.s).group

\* C29: extract_jsonrpc never raises and tries its strategies in a fixed order,
\* stopping at the first that succeeds: None for an input that is no string
\* starting with 'root=' or that has no result={...} fragment; else the value (or
\* its field) that the quote-normalized fragment gives as JSON; only if that fails,
\* the value (or its field) the original fragment gives to the literal parser; and
\* None if both fail.
C29_ExtractStrategies ==
    extracted.kind = "done" =>
        LET input == extracted.input
            field == extracted.field
            out == extracted.out
        IN
        /\ out # RecursionRaised
        /\ IF ~(input.t = "str" /\ input.s # <<>> /\ Head(input.s) = "root=") THEN out = PyNone
           ELSE IF ~ResultMatch(input.s).found THEN out = PyNone
           ELSE LET js == Parse(JsonCompatible(FragmentOf(input)), "json")
                    py == Parse(FragmentOf(input), "py")
                IN IF js.ok THEN out = SelectField(js.v, field)
                   ELSE IF py.ok THEN out = SelectField(py.v, field)
                   ELSE out = PyNone

\* ------------------------------------------------------------------------
\* MCPServerWrapper.initialize and wait_for_initialization (server.py 1178-1277)
\* ------------------------------------------------------------------------

\* requests that one handler of HTTP requests serves, one after the other
MaxRequests == 2

\* what get_db_url and get_mysql_dsn find in config.yaml, which load_config reads
\* again at every call (server.py 51-93): a mapping they can look into, or a shape
\* on which they raise (databases: null, postgresql: a string)
ConfigShapes == {"mapping", "malformed"}

\* the positions of a coroutine inside initialize at which it holds _init_lock
InBody == {"test", "flag", "event"}

clientSide ==
    <<clientVars, outbound, inbound, unanswered, cl, extracted, taskVars, parsed, text_value>>

InitInitialize ==
    /\ InitClients
    /\ transport = [c \in Clients |-> FALSE]
    /\ InitTasks
    /\ cl = [t \in Tasks |-> 1]
    /\ pc = [t \in Tasks |-> "off"]
    /\ InitServer

\* how many times a coroutine calls: the startup hook and run once, a handler once
\* for each request
CallLimit(k) == IF k \in HttpHandlers THEN MaxRequests ELSE 1

\* a coroutine calls initialize and reaches `async with self._init_lock` (1180);
\* run is called by the task that startup creates after its own initialize has
\* returned (1326-1335)
InitializeCall(k) ==
    /\ k \in Callers
    /\ coro[k].pc = "idle"
    /\ coro[k].calls < CallLimit(k)
    /\ k = "run" => coro["startup"].outcome = "returned"
    /\ coro' = [coro EXCEPT ![k] = [pc |-> "lock", calls |-> @.calls + 1, outcome |-> "none"]]
    /\ UNCHANGED <<clientSide, fetch, wrapper, body_runs>>

\* _init_lock is free and the coroutine takes it (1180)
AcquireInitLock(k) ==
    /\ coro[k].pc = "lock"
    /\ wrapper.init_lock = ""
    /\ wrapper' = [wrapper EXCEPT !.init_lock = k]
    /\ coro' = [coro EXCEPT ![k].pc = "test"]
    /\ UNCHANGED <<clientSide, fetch, body_runs>>

\* an initialize that runs the body whatever _initialized says
TestInitialized_NoTest(k) ==
    /\ coro[k].pc = "test"
    /\ body_runs' = [body_runs EXCEPT !.begun = @ + 1]
    /\ \E config \in ConfigShapes :
          IF config = "mapping"
          THEN /\ coro' = [coro EXCEPT ![k].pc = "flag"]
               /\ UNCHANGED wrapper
          ELSE /\ coro' = [coro EXCEPT ![k].pc = "idle", ![k].outcome = "raised"]
               /\ wrapper' = [wrapper EXCEPT !.init_lock = ""]
    /\ UNCHANGED <<clientSide, fetch>>

\* `if not self._initialized` and the checks of the body (1181-1258): with the flag
\* set the call leaves the lock and returns; else the body begins, and either gets
\* through its checks (a failed connection is only logged, 1195 and 1252) or
\* get_db_url or get_mysql_dsn raises, which is logged and raised again (1262-1264)
\* while the lock is left
TestInitialized(k) ==
    /\ coro[k].pc = "test"
    /\ IF wrapper.initialized
       THEN /\ coro' = [coro EXCEPT ![k].pc = "idle", ![k].outcome = "returned"]
            /\ wrapper' = [wrapper EXCEPT !.init_lock = ""]
            /\ UNCHANGED body_runs
       ELSE /\ body_runs' = [body_runs EXCEPT !.begun = @ + 1]
            /\ \E config \in ConfigShapes :
                  IF config = "mapping"
                  THEN /\ coro' = [coro EXCEPT ![k].pc = "flag"]
                       /\ UNCHANGED wrapper
                  ELSE /\ coro' = [coro EXCEPT ![k].pc = "idle", ![k].outcome = "raised"]
                       /\ wrapper' = [wrapper EXCEPT !.init_lock = ""]
    /\ UNCHANGED <<clientSide, fetch>>

\* self._initialized = True (1259)
SetInitialized(k) ==
    /\ coro[k].pc = "flag"
    /\ wrapper' = [wrapper EXCEPT !.initialized = TRUE]
    /\ coro' = [coro EXCEPT ![k].pc = "event"]
    /\ UNCHANGED <<clientSide, fetch, body_runs>>

\* self._init_event.set() (1260); the body is complete, the lock is left and the
\* call returns
SetInitEvent(k) ==
    /\ coro[k].pc = "event"
    /\ wrapper' = [wrapper EXCEPT !.init_event = TRUE, !.init_lock = ""]
    /\ body_runs' = [body_runs EXCEPT !.completed = @ + 1]
    /\ coro' = [coro EXCEPT ![k].pc = "idle", ![k].outcome = "returned"]
    /\ UNCHANGED <<clientSide, fetch>>

\* a coroutine awaits wait_for_initialization (1266-1268)
WaitForInitializationCall(k) ==
    /\ k \in Waiters
    /\ coro[k].pc = "idle"
    /\ coro[k].calls < 1
    /\ coro' = [coro EXCEPT ![k] = [pc |-> "wait", calls |-> @.calls + 1, outcome |-> "none"]]
    /\ UNCHANGED <<clientSide, fetch, wrapper, body_runs>>

\* self._init_event.wait() returns: the event is set (1268)
WaitForInitializationReturn(k) ==
    /\ coro[k].pc = "wait"
    /\ wrapper.init_event
    /\ coro' = [coro EXCEPT ![k].pc = "idle", ![k].outcome = "returned"]
    /\ UNCHANGED <<clientSide, fetch, wrapper, body_runs>>

NextInitialize ==
    \/ \E k \in Callers : InitializeCall(k)
    \/ \E k \in Callers : AcquireInitLock(k)
    \/ \E k \in Callers : TestInitialized(k)
    \/ \E k \in Callers : SetInitialized(k)
    \/ \E k \in Callers : SetInitEvent(k)
    \/ \E k \in Waiters : WaitForInitializationCall(k)
    \/ \E k \in Waiters : WaitForInitializationReturn(k)

SpecInitialize == InitInitialize /\ [][NextInitialize]_vars

\* _initialized never goes back to false, the event is set only when _initialized
\* is true, and wait_for_initialization has returned only after a body completed
InitializationLatch ==
    /\ wrapper.init_event => wrapper.initialized
    /\ \A k \in Waiters : coro[k].outcome = "returned" => body_runs.completed >= 1

InitializedStays == wrapper.initialized => wrapper'.initialized

\* C30 as stated: under any interleaving of initialize calls the initialization
\* body executes once, _initialized never goes from true back to false, the init
\* event is set only when _initialized is true, and wait_for_initialization returns
\* only after an initialization has completed.
C30_InitializationRunsOnce ==
    /\ [](body_runs.begun <= 1 /\ InitializationLatch)
    /\ [][InitializedStays]_vars

\* a call of initialize raises in this step
InitializeRaises(k) == coro[k].outcome # "raised" /\ coro'[k].outcome = "raised"

\* C30, amended: under any interleaving of initialize calls the initialization
\* body completes at most once, never runs in two coroutines at a time and never
\* begins again after it has completed; a body that raises leaves _initialized
\* false and the event unset, so that the next call runs the body again;
\* _initialized never goes from true back to false, the init event is set only when
\* _initialized is true, and wait_for_initialization returns only after an
\* initialization has completed.
C30_InitializationCompletesOnce ==
    /\ [](/\ body_runs.completed <= 1
          /\ Cardinality({k \in Callers : coro[k].pc \in InBody}) <= 1
          /\ InitializationLatch)
    /\ [][/\ InitializedStays
          /\ body_runs.completed >= 1 => body_runs'.begun = body_runs.begun
          /\ \A k \in Callers : InitializeRaises(k) =>
                ~wrapper'.initialized /\ ~wrapper'.init_event /\ wrapper'.init_lock = ""]_vars

\* a body has raised, a later one has completed, a call after that has returned
\* without running the body, and the waiter has returned
C30_Witness ==
    /\ body_runs.begun >= 2
    /\ body_runs.completed = 1
    /\ \E k \in Callers : coro[k].outcome = "raised"
    /\ coro["run"].outcome = "returned"
    /\ \A k \in Waiters : coro[k].outcome = "returned"

====
